---- MODULE Spec2Model ----
(***************************************************************************)
(* Response recovery of cyber-query-ai: clean_json_response (helpers.py),  *)
(* json.loads as the handlers use it, and the JSON endpoint handlers of    *)
(* api.py, main.py and server.py; the RAG system (rag.py) and the prompt   *)
(* templates (chatbot.py); the event loop the handlers run on; serve_spa   *)
(* and get_static_files.                                                   *)
(*                                                                         *)
(* A text is a sequence of one-character strings, so every rewrite rule is *)
(* computed character by character, the way re.sub and str.replace do.     *)
(***************************************************************************)
EXTENDS Integers, Sequences, FiniteSets, TLC

VARIABLES
    shape,          \* the form of the text handed to clean_json_response
    fill,           \* the free text inside that form
    endpoint,       \* the handler serving the request
    pc,             \* the handler's position
    raw,            \* what chatbot.llm returned
    response_text,  \* the handler's variable of that name
    cleaned,        \* the text handed to json.loads
    parsed,         \* what json.loads returned
    exc,            \* the exception raised inside the try block
    calls,          \* how often the generation function was invoked
    outcome,        \* what the caller receives
    env,            \* the rag_data directory, its files and tools.json
    vector_store,   \* RAGSystem.vector_store
    op,             \* the RAGSystem or Chatbot method being run
    rpc,            \* the position inside that method
    documents,      \* create_vector_store's documents
    splits,         \* create_vector_store's splits
    retrieved,      \* what similarity_search returned
    rag_content,    \* what generate_rag_content returned
    result,         \* how the method ended: its return value or its exception
    loads,          \* how often load_documents was run
    embeds,         \* how often the embedding function was called
    stores,         \* how many InMemoryVectorStore objects were made
    ncalls,         \* how many methods were called
    loop,           \* the request whose handler runs on the event loop (0: none)
    req,            \* where each request in flight is
    tree,           \* the file system around static_dir
    full_path,      \* the path serve_spa was asked for
    served,         \* what get_static_files returned
    task,           \* the message prompt_chat was called with
    queries         \* the queries the prompt templates have searched with

hvars ==
    <<shape, fill, endpoint, pc, raw, response_text, cleaned, parsed, exc, calls,
      outcome>>

ragvars ==
    <<env, vector_store, op, rpc, documents, splits, retrieved, rag_content,
      result, loads, embeds, stores, ncalls>>

\* the event loop and its requests
lvars == <<loop, req>>

\* serve_spa
svars == <<tree, full_path, served>>

\* the prompt and its retrieval query
pvars == <<task, queries>>

vars == <<hvars, ragvars, lvars, svars, pvars>>

(***************************************************************************)
(* Characters and character classes of Python's re module and str.strip.   *)
(***************************************************************************)
BS == "\\"
DQ == "\""
SQ == "'"
\* the backtick (the lexer of TLA+ admits no backtick inside a string, so the
\* character is written by name)
BT == "<backtick>"
NL == "\n"

Digits == {"0","1","2","3","4","5","6","7","8","9"}

IsSpace(c) == c \in {" ", "\t", "\n", "\r", "\f"}

IsWord(c) == c \in ({"a","b","c","d","e","f","g","h","i","j","k","l","m",
        "n","o","p","q","r","s","t","u","v","w","x","y","z"}
        \cup {"A","B","C","D","E","F","G","H","I","J","K","L","M",
        "N","O","P","Q","R","S","T","U","V","W","X","Y","Z"} \cup Digits \cup {"_"})

\* re.IGNORECASE folding of the letters the structural pattern names
Lower(c) ==
    CASE c = "E" -> "e" [] c = "X" -> "x" [] c = "P" -> "p" [] c = "L" -> "l"
      [] c = "A" -> "a" [] c = "N" -> "n" [] c = "T" -> "t" [] c = "I" -> "i"
      [] c = "O" -> "o" [] OTHER -> c

(***************************************************************************)
(* Literal texts of helpers.py.                                            *)
(***************************************************************************)
Fence == <<BT, BT, BT>>

FenceJson == <<BT, BT, BT, "j", "s", "o", "n">>

EscapedSingle == <<BS, SQ>>

EscapedDouble == <<BS, DQ>>

SentinelSingle ==
    <<"_","_","E","S","C","A","P","E","D","_","S","I","N","G","L","E",
      "_","Q","U","O","T","E","_","_">>

SentinelDouble ==
    <<"_","_","E","S","C","A","P","E","D","_","D","O","U","B","L","E",
      "_","Q","U","O","T","E","_","_">>

(***************************************************************************)
(* Scanning helpers.                                                       *)
(***************************************************************************)
\* the literal lit occurs in t at position i
MatchAt(t, i, lit) ==
    /\ i >= 1
    /\ i + Len(lit) - 1 <= Len(t)
    /\ SubSeq(t, i, i + Len(lit) - 1) = lit

\* the same, ignoring case (lit is lower case)
MatchAtFold(t, i, lit) ==
    /\ i >= 1
    /\ i + Len(lit) - 1 <= Len(t)
    /\ \A k \in 1..Len(lit) : Lower(t[i + k - 1]) = lit[k]

\* the least element of a non-empty set of positions
FirstOf(S) == CHOOSE i \in S : \A j \in S : i <= j

\* the greatest element of a non-empty set of positions
LastOf(S) == CHOOSE i \in S : \A j \in S : j <= i

\* the first position at or after i that holds no whitespace (\s* is greedy)
SkipSpace(t, i) ==
    IF i > Len(t) THEN i
    ELSE FirstOf({j \in i..(Len(t) + 1) : ~(j <= Len(t) /\ IsSpace(t[j]))})

\* the first position at or after i that holds c, or Len(t)+1 ([^c]* is greedy)
SkipNot(t, i, c) ==
    IF i > Len(t) THEN i
    ELSE FirstOf({j \in i..(Len(t) + 1) : ~(j <= Len(t) /\ t[j] # c)})

RECURSIVE ReplaceFrom(_, _, _, _)
ReplaceFrom(t, i, old, new) ==
    LET hits == {j \in i..Len(t) : MatchAt(t, j, old)} IN
    IF hits = {} THEN SubSeq(t, i, Len(t))
    ELSE LET j == FirstOf(hits) IN
         SubSeq(t, i, j - 1) \o new \o ReplaceFrom(t, j + Len(old), old, new)

\* str.replace(old, new): every non-overlapping occurrence, left to right
Replace(t, old, new) == ReplaceFrom(t, 1, old, new)

\* str.strip()
Strip(t) ==
    LET solid == {j \in 1..Len(t) : ~IsSpace(t[j])} IN
    IF solid = {} THEN <<>> ELSE SubSeq(t, FirstOf(solid), LastOf(solid))

(***************************************************************************)
(* json.loads (the standard decoder, strict mode) as the handlers and      *)
(* clean_json_response call it.  A parsed value is a tagged pair:          *)
(* <<"str", text>>, <<"num", literal text>>, <<"lit", name>>,              *)
(* <<"arr", sequence of values>>, <<"obj", function from key text to       *)
(* value>> (a repeated key keeps its last value, as a Python dict does).   *)
(***************************************************************************)
\* the character at position i, or the empty string past the end (s[i:i+1])
At(t, i) == IF i >= 1 /\ i <= Len(t) THEN t[i] ELSE ""

SkipJsonSpace(t, i) ==
    IF i > Len(t) THEN i
    ELSE FirstOf({j \in i..(Len(t) + 1) : At(t, j) \notin {" ", "\t", "\n", "\r"}})

SkipDigits(t, i) ==
    IF i > Len(t) THEN i
    ELSE FirstOf({j \in i..(Len(t) + 1) : At(t, j) \notin Digits})

ParseFail == [ok |-> FALSE, val |-> <<>>, pos |-> 0]

ParseOk(v, p) == [ok |-> TRUE, val |-> v, pos |-> p]

\* the character an escape stands for; a \u escape is kept as the marker
\* "\\u" followed by its four hexadecimal digits
Unescape(c) ==
    CASE c = "b" -> "<backspace>" [] c = "f" -> "\f" [] c = "n" -> "\n"
      [] c = "r" -> "\r" [] c = "t" -> "\t" [] c = "u" -> "\\u" [] OTHER -> c

\* inside a string that starts at i: position p follows an odd run of
\* backslashes, so the character at p is escaped
Escaped(t, i, p) ==
    LET plain == {q \in i..(p - 1) : t[q] # BS}
        last == IF plain = {} THEN i - 1 ELSE LastOf(plain)
    IN (p - 1 - last) % 2 = 1

\* py_scanstring from the position i after the opening quote: the string ends
\* at the first quote that no backslash escapes; every escape must be one of
\* the table or \u with four hexadecimal digits, and no control character
\* may occur
ScanString(t, i, acc) ==
    LET ends == {q \in i..Len(t) : t[q] = DQ /\ ~Escaped(t, i, q)} IN
    IF ends = {} THEN ParseFail
    ELSE
    LET q == FirstOf(ends)
        Intro(p) == t[p] = BS /\ ~Escaped(t, i, p)
        Valid(p) ==
            IF Intro(p)
            THEN \/ t[p + 1] \in {DQ, BS, "/", "b", "f", "n", "r", "t"}
                 \/ t[p + 1] = "u" /\ \A k \in 2..5 : At(t, p + k) \in
                        Digits \cup {"a","b","c","d","e","f","A","B","C","D","E","F"}
            ELSE Escaped(t, i, p) \/ t[p] \notin {"\t", "\n", "\r", "\f"}
        kept == SelectSeq([k \in 1..(q - i) |-> i + k - 1], LAMBDA p : ~Intro(p))
    IN IF \A p \in i..(q - 1) : Valid(p)
       THEN ParseOk(acc \o [k \in DOMAIN kept |->
                               IF Escaped(t, i, kept[k]) THEN Unescape(t[kept[k]])
                               ELSE t[kept[k]]],
                    q + 1)
       ELSE ParseFail

\* NUMBER_RE of json.scanner: (-?(?:0|[1-9]\d*))(\.\d+)?([eE][-+]?\d+)?
\* the position after the match at i, or 0 when there is none
ScanNumber(t, i) ==
    LET j0 == IF At(t, i) = "-" THEN i + 1 ELSE i
        j1 == IF At(t, j0) = "0" THEN j0 + 1
              ELSE IF At(t, j0) \in Digits THEN SkipDigits(t, j0 + 1)
              ELSE 0
        j2 == IF j1 # 0 /\ At(t, j1) = "." /\ At(t, j1 + 1) \in Digits
              THEN SkipDigits(t, j1 + 2) ELSE j1
        k  == IF At(t, j2 + 1) \in {"+", "-"} THEN j2 + 2 ELSE j2 + 1
        j3 == IF At(t, j2) \in {"e", "E"} /\ At(t, k) \in Digits
              THEN SkipDigits(t, k + 1) ELSE j2
    IN IF j1 = 0 THEN 0 ELSE j3

RECURSIVE ParseValue(_, _)
RECURSIVE ParseMembers(_, _, _)
RECURSIVE ParseElements(_, _, _)

\* JSONObject after the key at j has been found to open with a quote
ParseMembers(t, j, f) ==
    IF At(t, j) # DQ THEN ParseFail
    ELSE
    LET key == ScanString(t, j + 1, <<>>) IN
    IF ~key.ok THEN ParseFail
    ELSE
    LET c == SkipJsonSpace(t, key.pos) IN
    IF At(t, c) # ":" THEN ParseFail
    ELSE
    LET v == ParseValue(t, SkipJsonSpace(t, c + 1)) IN
    IF ~v.ok THEN ParseFail
    ELSE
    LET g == [x \in (DOMAIN f) \cup {key.val} |->
                 IF x = key.val THEN v.val ELSE f[x]]
        m == SkipJsonSpace(t, v.pos)
    IN IF At(t, m) = "}" THEN ParseOk(<<"obj", g>>, m + 1)
       ELSE IF At(t, m) = "," THEN ParseMembers(t, SkipJsonSpace(t, m + 1), g)
       ELSE ParseFail

\* JSONArray from the first element at j
ParseElements(t, j, acc) ==
    LET v == ParseValue(t, j) IN
    IF ~v.ok THEN ParseFail
    ELSE
    LET m == SkipJsonSpace(t, v.pos) IN
    IF At(t, m) = "]" THEN ParseOk(<<"arr", Append(acc, v.val)>>, m + 1)
    ELSE IF At(t, m) = ","
         THEN ParseElements(t, SkipJsonSpace(t, m + 1), Append(acc, v.val))
    ELSE ParseFail

\* scan_once of json.scanner, in its order of tests
ParseValue(t, i) ==
    LET c == At(t, i) IN
    IF c = "" THEN ParseFail
    ELSE IF c = DQ THEN
        LET s == ScanString(t, i + 1, <<>>) IN
        IF s.ok THEN ParseOk(<<"str", s.val>>, s.pos) ELSE ParseFail
    ELSE IF c = "{" THEN
        LET j == SkipJsonSpace(t, i + 1) IN
        IF At(t, j) = "}" THEN ParseOk(<<"obj", <<>>>>, j + 1)
        ELSE ParseMembers(t, j, <<>>)
    ELSE IF c = "[" THEN
        LET j == SkipJsonSpace(t, i + 1) IN
        IF At(t, j) = "]" THEN ParseOk(<<"arr", <<>>>>, j + 1)
        ELSE ParseElements(t, j, <<>>)
    ELSE IF MatchAt(t, i, <<"n","u","l","l">>) THEN ParseOk(<<"lit", "null">>,
            i + Len(<<"n","u","l","l">>))
    ELSE IF MatchAt(t, i, <<"t","r","u","e">>) THEN ParseOk(<<"lit", "true">>,
            i + Len(<<"t","r","u","e">>))
    ELSE IF MatchAt(t, i, <<"f","a","l","s","e">>) THEN ParseOk(<<"lit", "false">>,
            i + Len(<<"f","a","l","s","e">>))
    ELSE IF ScanNumber(t, i) # 0
         THEN ParseOk(<<"num", SubSeq(t, i, ScanNumber(t, i) - 1)>>, ScanNumber(t, i))
    ELSE IF MatchAt(t, i, <<"N","a","N">>) THEN ParseOk(<<"lit", "NaN">>, i + Len(<<"N","a","N">>))
    ELSE IF MatchAt(t, i, <<"I","n","f","i","n","i","t","y">>)
         THEN ParseOk(<<"lit", "Infinity">>, i + Len(<<"I","n","f","i","n","i","t","y">>))
    ELSE IF MatchAt(t, i, <<"-","I","n","f","i","n","i","t","y">>)
         THEN ParseOk(<<"lit", "-Infinity">>, i + Len(<<"-","I","n","f","i","n","i","t","y">>))
    ELSE ParseFail

\* json.loads(t): the value, or a failure (json.JSONDecodeError)
JsonLoads(t) ==
    LET v == ParseValue(t, SkipJsonSpace(t, 1)) IN
    IF v.ok /\ SkipJsonSpace(t, v.pos) > Len(t) THEN v ELSE ParseFail

IsJson(t) == JsonLoads(t).ok

(***************************************************************************)
(* The rewrite rules of clean_json_response (helpers.py), one operator per *)
(* re.sub / str.replace call, each scanning left to right for              *)
(* non-overlapping matches.                                                *)
(***************************************************************************)
RECURSIVE SubFenceJsonFrom(_, _)
SubFenceJsonFrom(t, i) ==
    LET hits == {j \in i..Len(t) : MatchAt(t, j, FenceJson)} IN
    IF hits = {} THEN SubSeq(t, i, Len(t))
    ELSE LET j == FirstOf(hits) IN
         SubSeq(t, i, j - 1)
         \o SubFenceJsonFrom(t, SkipSpace(t, j + Len(FenceJson)))

\* line 50: re.sub of the fence with the json tag and the whitespace after it
SubFenceJson(t) == SubFenceJsonFrom(t, 1)

\* line 51: re.sub of a fence followed only by whitespace up to the end of the
\* text; the leftmost such fence and everything after it go
SubFenceEnd(t) ==
    LET hits == {i \in 1..Len(t) :
                    MatchAt(t, i, Fence) /\ SkipSpace(t, i + Len(Fence)) > Len(t)}
    IN IF hits = {} THEN t
       ELSE SubSeq(t, 1, (CHOOSE i \in hits : \A j \in hits : i <= j) - 1)

\* the pattern of line 69 matches at j
ContractionAt(t, j) ==
    /\ IsWord(t[j])
    /\ MatchAt(t, j + 1, EscapedDouble)
    /\ IsWord(At(t, j + 1 + Len(EscapedDouble)))

RECURSIVE SubContractionFrom(_, _)
SubContractionFrom(t, i) ==
    LET hits == {j \in i..Len(t) : ContractionAt(t, j)} IN
    IF hits = {} THEN SubSeq(t, i, Len(t))
    ELSE LET j == FirstOf(hits) IN
         SubSeq(t, i, j) \o <<SQ, t[j + 1 + Len(EscapedDouble)]>>
         \o SubContractionFrom(t, j + 2 + Len(EscapedDouble))

\* line 69: word character, escaped double quote, word character
SubContraction(t) == SubContractionFrom(t, 1)

\* the pattern of line 70 matches at j
QuoteWordAt(t, j) ==
    MatchAt(t, j, EscapedDouble) /\ IsWord(At(t, j + Len(EscapedDouble)))

RECURSIVE SubQuoteWordFrom(_, _)
SubQuoteWordFrom(t, i) ==
    LET hits == {j \in i..Len(t) : QuoteWordAt(t, j)} IN
    IF hits = {} THEN SubSeq(t, i, Len(t))
    ELSE LET j == FirstOf(hits) IN
         SubSeq(t, i, j - 1) \o <<SQ, t[j + Len(EscapedDouble)]>>
         \o SubQuoteWordFrom(t, j + 1 + Len(EscapedDouble))

\* line 70: escaped double quote at the start of a word
SubQuoteWord(t) == SubQuoteWordFrom(t, 1)

RECURSIVE SubSingleQuotedFrom(_, _)
SubSingleQuotedFrom(t, i) ==
    LET hits == {j \in i..Len(t) : t[j] = SQ /\ SkipNot(t, j + 1, SQ) <= Len(t)} IN
    IF hits = {} THEN SubSeq(t, i, Len(t))
    ELSE LET j == FirstOf(hits)
             k == SkipNot(t, j + 1, SQ)
         IN SubSeq(t, i, j - 1) \o <<DQ>> \o SubSeq(t, j + 1, k - 1) \o <<DQ>>
            \o SubSingleQuotedFrom(t, k + 1)

\* line 79: a pair of single quotes with no single quote between them
SubSingleQuoted(t) == SubSingleQuotedFrom(t, 1)

\* the pattern of line 86 matches at j
TrailingCommaAt(t, j) ==
    t[j] = "," /\ At(t, SkipSpace(t, j + 1)) \in {"}", "]"}

RECURSIVE SubTrailingCommaFrom(_, _)
SubTrailingCommaFrom(t, i) ==
    LET hits == {j \in i..Len(t) : TrailingCommaAt(t, j)} IN
    IF hits = {} THEN SubSeq(t, i, Len(t))
    ELSE LET j == FirstOf(hits)
             k == SkipSpace(t, j + 1)
         IN SubSeq(t, i, j - 1) \o SubSeq(t, j + 1, k)
            \o SubTrailingCommaFrom(t, k + 1)

\* line 86: a comma, optional whitespace, a closing brace or bracket
SubTrailingComma(t) == SubTrailingCommaFrom(t, 1)

\* lines 90-95, one match attempt of the structural pattern at position i:
\*   (\["[^"]*"\s*),\s*"(explanation?)":\s*"([^"]*)"(\s*\])
\* every quantifier is followed by a character outside its class, so the
\* greedy match is the only one.  The positions of the parts, or ok = FALSE.
StructuralMatch(t, i) ==
    LET q1 == SkipNot(t, i + 2, DQ)              \* closing quote of the element
        c1 == SkipSpace(t, q1 + 1)               \* the comma
        k0 == SkipSpace(t, c1 + 1)               \* opening quote of the key
        k1 == k0 + 1 + Len(<<"e","x","p","l","a","n","a","t","i","o">>)           \* after "explanatio"
        k2 == IF Lower(At(t, k1)) = "n" THEN k1 + 1 ELSE k1  \* closing quote
        v0 == SkipSpace(t, k2 + 2)               \* opening quote of the value
        v1 == SkipNot(t, v0 + 1, DQ)             \* closing quote of the value
        e  == SkipSpace(t, v1 + 1)               \* the closing bracket
    IN [ok |-> /\ At(t, i) = "[" /\ At(t, i + 1) = DQ
               /\ At(t, q1) = DQ
               /\ At(t, c1) = ","
               /\ At(t, k0) = DQ
               /\ MatchAtFold(t, k0 + 1, <<"e","x","p","l","a","n","a","t","i","o">>)
               /\ At(t, k2) = DQ /\ At(t, k2 + 1) = ":"
               /\ At(t, v0) = DQ
               /\ At(t, v1) = DQ
               /\ At(t, e) = "]",
        c1 |-> c1, k0 |-> k0, k2 |-> k2, v0 |-> v0, v1 |-> v1, end |-> e + 1]

RECURSIVE SubStructuralFrom(_, _)
\* the replacement keeps groups 1 to 3 and drops group 4 (the bracket)
SubStructuralFrom(t, i) ==
    LET hits == {j \in i..Len(t) : StructuralMatch(t, j).ok} IN
    IF hits = {} THEN SubSeq(t, i, Len(t))
    ELSE LET j == FirstOf(hits)
             m == StructuralMatch(t, j)
         IN SubSeq(t, i, j - 1)
            \o SubSeq(t, j, m.c1 - 1) \o <<"]", ",", " ", DQ>>
            \o SubSeq(t, m.k0 + 1, m.k2 - 1) \o <<DQ, ":", " ", DQ>>
            \o SubSeq(t, m.v0 + 1, m.v1 - 1) \o <<DQ>>
            \o SubStructuralFrom(t, m.end)

\* lines 90-95: the explanation key inside the commands array
SubStructural(t) == SubStructuralFrom(t, 1)

\* the rewrite chain with the structural repair before the trailing commas
RewriteChainStructuralFirst(t) ==
    LET s1 == Replace(Replace(t, <<BT, BT, BT, "p", "y", "t", "h", "o", "n">>,
                                 <<BT, BT, BT, BS, "n", "p", "y", "t", "h", "o", "n">>),
                      Fence, <<>>)
        s2 == SubQuoteWord(SubContraction(
                  Replace(s1, <<"c", "l", "i", "e", "n", "t", BS, DQ, "s">>,
                              <<"c", "l", "i", "e", "n", "t", SQ, "s">>)))
        s3a == Replace(Replace(s2, EscapedSingle, SentinelSingle),
                       EscapedDouble, SentinelDouble)
        s3b == SubSingleQuoted(s3a)
        s3 == Replace(Replace(s3b, SentinelSingle, EscapedSingle),
                      SentinelDouble, EscapedDouble)
        s4 == SubStructural(s3)
    IN SubTrailingComma(s4)

\* lines 64-95: the rewrite chain taken when the first parse fails
RewriteChain(t) ==
    LET s1 == Replace(Replace(t, <<BT, BT, BT, "p", "y", "t", "h", "o", "n">>,
                                 <<BT, BT, BT, BS, "n", "p", "y", "t", "h", "o", "n">>),
                      Fence, <<>>)
        s2 == SubQuoteWord(SubContraction(
                  Replace(s1, <<"c", "l", "i", "e", "n", "t", BS, DQ, "s">>,
                              <<"c", "l", "i", "e", "n", "t", SQ, "s">>)))
        s3a == Replace(Replace(s2, EscapedSingle, SentinelSingle),
                       EscapedDouble, SentinelDouble)
        s3b == SubSingleQuoted(s3a)
        s3 == Replace(Replace(s3b, SentinelSingle, EscapedSingle),
                      SentinelDouble, EscapedDouble)
        s4 == SubTrailingComma(s3)
    IN SubStructural(s4)

\* lines 50-51: the fence removal that precedes the first parse
StripFences(t) == SubFenceEnd(SubFenceJson(t))

clean_json_response(t) ==
    LET stripped == StripFences(t) IN
    IF IsJson(Strip(stripped)) THEN Strip(stripped)
    ELSE Strip(RewriteChain(stripped))

(***************************************************************************)
(* The response models and the JSON endpoint handlers.                     *)
(***************************************************************************)
\* Python's None, as a one-element sequence that no text and no value equals
None == <<"None">>

K_commands == <<"c","o","m","m","a","n","d","s">>

K_explanation == <<"e","x","p","l","a","n","a","t","i","o","n">>

K_script == <<"s","c","r","i","p","t">>

K_exploits == <<"e","x","p","l","o","i","t","s">>

K_model_message == <<"m","o","d","e","l","_","m","e","s","s","a","g","e">>

K_generated_code == <<"g","e","n","e","r","a","t","e","d","_","c","o","d","e">>

K_language == <<"l","a","n","g","u","a","g","e">>

ApiEndpoints ==
    {"chat", "generate_command", "generate_script", "explain_command",
     "explain_script", "search_exploits"}

ServerEndpoints ==
    {"post_chat", "post_generate_code", "post_explain_code", "post_exploit_search"}

Endpoints == ApiEndpoints \cup {"main_generate_command"} \cup ServerEndpoints

\* the fields of the Exploit model and their types
ExploitFields ==
    (<<"t","i","t","l","e">> :> "str") @@ (<<"l","i","n","k">> :> "str")
    @@ (<<"s","e","v","e","r","i","t","y">> :> "str")
    @@ (<<"d","e","s","c","r","i","p","t","i","o","n">> :> "str")

\* the fields each handler's response model declares beyond BaseResponse, with
\* their types.  The models api.py and main.py import are the ones their
\* constructor calls name; server.py's are those of models.py.
CommandGenerationResponse == (K_commands :> "list_str") @@ (K_explanation :> "str")

ScriptGenerationResponse == (K_script :> "str") @@ (K_explanation :> "str")

ExplanationResponse == (K_explanation :> "str")

ExploitSearchResponse == (K_exploits :> "list_exploit") @@ (K_explanation :> "str")

PostChatResponse == (K_model_message :> "str")

PostCodeGenerationResponse ==
    (K_generated_code :> "str") @@ (K_explanation :> "str") @@ (K_language :> "str")

PostCodeExplanationResponse == (K_explanation :> "str")

PostExploitSearchResponse == (K_exploits :> "list_exploit") @@ (K_explanation :> "str")

\* the response model of each handler
ModelFields(e) ==
    CASE e \in {"generate_command", "main_generate_command"} -> CommandGenerationResponse
      [] e = "generate_script" -> ScriptGenerationResponse
      [] e \in {"explain_command", "explain_script"} -> ExplanationResponse
      [] e = "search_exploits" -> ExploitSearchResponse
      [] e = "post_chat" -> PostChatResponse
      [] e = "post_generate_code" -> PostCodeGenerationResponse
      [] e = "post_explain_code" -> PostCodeExplanationResponse
      [] e = "post_exploit_search" -> PostExploitSearchResponse
      [] OTHER -> <<>>

\* set(Model.model_fields), the literal set of main.py, the *_FIELDS of server.py
RequiredFields(e) == DOMAIN ModelFields(e)

IsObject(v) == v[1] = "obj"

\* pydantic's check of one field value against its declared type
FieldOk(type, v) ==
    CASE type = "str" -> v[1] = "str"
      [] type = "list_str" ->
            v[1] = "arr" /\ \A i \in DOMAIN v[2] : v[2][i][1] = "str"
      [] type = "list_exploit" ->
            /\ v[1] = "arr"
            /\ \A i \in DOMAIN v[2] :
                  /\ IsObject(v[2][i])
                  /\ DOMAIN ExploitFields \subseteq DOMAIN v[2][i][2]
                  /\ \A k \in DOMAIN ExploitFields : v[2][i][2][k][1] = "str"
      [] OTHER -> FALSE

\* Model(**parsed) validates: every declared field has a value of its type
\* (keys the model does not declare are ignored)
ModelValidates(e, obj) ==
    /\ RequiredFields(e) \subseteq DOMAIN obj
    /\ \A k \in RequiredFields(e) : FieldOk(ModelFields(e)[k], obj[k])

\* the empty value the handlers put in a field of a placeholder response
EmptyOf(type) == IF type = "str" THEN <<"str", <<>>>> ELSE <<"arr", <<>>>>

HTTP_OK == 200

HTTP_INTERNAL_SERVER_ERROR == 500

NoOutcome ==
    [kind |-> "none", http |-> 0, code |-> "none", error |-> "none",
     details |-> "none", rawtext |-> None, missing |-> {}, payload |-> <<>>]

\* get_server_error without the fallback for a missing or empty text
get_server_error_no_fallback(error, exception, rt) ==
    [kind |-> "Rejected", http |-> HTTP_INTERNAL_SERVER_ERROR, code |-> "none",
     error |-> error, details |-> exception, rawtext |-> rt,
     missing |-> {}, payload |-> <<>>]

\* api.py get_server_error: the HTTPException the handler raises
get_server_error(error, exception, rt) ==
    [kind |-> "Rejected", http |-> HTTP_INTERNAL_SERVER_ERROR, code |-> "none",
     error |-> error, details |-> exception,
     rawtext |-> IF rt # None /\ rt # <<>> THEN rt ELSE <<"N","o"," ","r","e","s","p","o","n","s","e">>,
     missing |-> {}, payload |-> <<>>]

\* a handler without the closing "except Exception" clause
ExceptClauseJsonOnly(e, exception) ==
    IF e # "chat" /\ exception = "JSONDecodeError" THEN "json" ELSE "escapes"

\* which except clause of the handler takes an exception raised in its try
\* block: every handler but chat has one for json.JSONDecodeError, and all end
\* with one for Exception, which every exception modelled here derives from
ExceptClause(e, exception) ==
    IF e # "chat" /\ exception = "JSONDecodeError" THEN "json" ELSE "generic"

\* the response a server.py handler returns from an except clause or from
\* its missing-keys branch: every payload field empty
ServerFailure(e, kind, message, content, missing) ==
    [kind |-> kind, http |-> HTTP_OK, code |-> "INTERNAL_SERVER_ERROR",
     error |-> message, details |-> "none", rawtext |-> content,
     missing |-> missing,
     payload |-> [k \in RequiredFields(e) |-> EmptyOf(ModelFields(e)[k])]]

\* what the caller receives when exception is raised in the try block with the
\* handler's response_text being rt and the reply content being content
Raise(e, exception, rt, content) ==
    LET clause == ExceptClause(e, exception) IN
    IF clause = "escapes"
    THEN [NoOutcome EXCEPT !.kind = "Unhandled", !.details = exception]
    ELSE IF e \in ServerEndpoints THEN
        IF clause = "json"
        THEN ServerFailure(e, "Rejected", "Invalid JSON response from LLM", content, {})
        ELSE ServerFailure(e, "Rejected", "An unexpected error occurred", None, {})
    ELSE IF e \in {"main_generate_command"} THEN
        IF clause = "json"
        THEN [get_server_error("Invalid JSON response from LLM", exception, rt)
                 EXCEPT !.details = "JSON parsing failed: JSONDecodeError"]
        ELSE get_server_error("Failed to generate or parse LLM response", exception, rt)
    ELSE IF e = "chat"
         THEN get_server_error("Failed to generate chat response", exception, rt)
    ELSE IF clause = "json"
         THEN get_server_error("Invalid JSON response from LLM", exception, rt)
    ELSE get_server_error("Failed to generate or parse LLM response", exception, rt)

\* a missing-keys branch that names every required key
MissingKeysNamesAll(e, missing) ==
    [kind |-> "Degraded", http |-> HTTP_OK,
     code |-> IF e \in ServerEndpoints THEN "INTERNAL_SERVER_ERROR" ELSE "none",
     error |-> IF e \in ServerEndpoints
               THEN "Missing required keys in LLM response" ELSE "none",
     details |-> "none", rawtext |-> None,
     missing |-> RequiredFields(e),
     payload |-> [k \in RequiredFields(e) |->
                     IF k = K_explanation /\ e \notin ServerEndpoints
                     THEN <<"Missing required keys in LLM response", RequiredFields(e)>>
                     ELSE EmptyOf(ModelFields(e)[k])]]

\* a missing-keys branch that raises the HTTP failure
MissingKeysRaises(e, missing) ==
    [kind |-> "Rejected", http |-> HTTP_INTERNAL_SERVER_ERROR, code |-> "none",
     error |-> "Missing required keys in LLM response", details |-> "none",
     rawtext |-> <<"N","o"," ","r","e","s","p","o","n","s","e">>, missing |-> missing,
             payload |-> <<>>]

\* the placeholder response of the missing-keys branch
MissingKeys(e, missing) ==
    IF e \in ServerEndpoints
    THEN ServerFailure(e, "Degraded", "Missing required keys in LLM response",
                       None, missing)
    ELSE [kind |-> "Degraded", http |-> HTTP_OK, code |-> "none",
          error |-> "none", details |-> "none", rawtext |-> None,
          missing |-> missing,
          payload |-> [k \in RequiredFields(e) |->
                          IF k = K_explanation
                          THEN <<"Missing required keys in LLM response", missing>>
                          ELSE EmptyOf(ModelFields(e)[k])]]

\* the response built from a payload that has every required key
Success(e, obj) ==
    [kind |-> "Accepted", http |-> HTTP_OK,
     code |-> IF e \in ServerEndpoints THEN "OK" ELSE "none",
     error |-> "none", details |-> "none", rawtext |-> None, missing |-> {},
     payload |-> [k \in RequiredFields(e) |-> obj[k]]]

\* the handler from the return of json.loads on: the keys() call, the
\* missing-keys branch, the construction of the response model
Validate(e, value, rt, content) ==
    IF ~IsObject(value) THEN [exc |-> "AttributeError",
                              out |-> Raise(e, "AttributeError", rt, content)]
    ELSE LET missing == RequiredFields(e) \ DOMAIN value[2] IN
         IF missing # {} THEN [exc |-> "none", out |-> MissingKeys(e, missing)]
         ELSE IF ModelValidates(e, value[2])
              THEN [exc |-> "none", out |-> Success(e, value[2])]
         ELSE [exc |-> "ValidationError",
               out |-> Raise(e, "ValidationError", rt, content)]

(***************************************************************************)
(* The replies of the generation function the handlers are run on: JSON    *)
(* objects that give each field of the handler's model a value of the      *)
(* right type, a value of a wrong type or no value, and replies that are   *)
(* no object or no JSON.                                                   *)
(***************************************************************************)
GoodText(e, k) ==
    IF k \notin RequiredFields(e) \/ ModelFields(e)[k] = "str" THEN <<DQ, "x", DQ>>
    ELSE IF ModelFields(e)[k] = "list_str" THEN <<"[", DQ, "x", DQ, "]">>
    ELSE <<"[">>
         \o <<"{",DQ,"t","i","t","l","e",DQ,":"," ",DQ,"x",DQ,","," ",
              DQ,"l","i","n","k",DQ,":"," ",DQ,"x",DQ,","," ",
              DQ,"s","e","v","e","r","i","t","y",DQ,":"," ",DQ,"x",DQ,","," ",
              DQ,"d","e","s","c","r","i","p","t","i","o","n",DQ,":"," ",DQ,"x",DQ,"}">>
         \o <<"]">>

RECURSIVE RenderMembers(_, _, _)
RenderMembers(e, a, keys) ==
    IF keys = <<>> THEN <<>>
    ELSE <<DQ>> \o Head(keys) \o <<DQ, ":", " ">>
         \o (IF a[Head(keys)] = "good" THEN GoodText(e, Head(keys)) ELSE <<"1">>)
         \o (IF Len(keys) > 1 THEN <<",", " ">> ELSE <<>>)
         \o RenderMembers(e, a, Tail(keys))

\* the JSON text of the object that a describes
RenderObject(e, a) ==
    <<"{">>
    \o RenderMembers(e, a, SelectSeq(
           <<K_commands, K_script, K_exploits, K_model_message, K_generated_code,
             K_explanation, K_language, <<"a">>>>,
           LAMBDA k : k \in DOMAIN a /\ a[k] # "absent"))
    \o <<"}">>

\* chatbot.py: the response_format the pt_* property of handler e hands to
\* _build_json_instructions; pt_chat builds no JSON instructions
response_format(e) ==
    LET dots(k) == <<DQ>> \o k \o <<DQ, ":", " ", DQ, ".", ".", ".", DQ>>
        also == <<",", " ">>
    IN  CASE e = "post_generate_code" ->
               <<"{">> \o dots(<<"c","o","d","e">>) \o also \o dots(K_explanation)
               \o also \o dots(K_language) \o <<"}">>
          [] e = "post_explain_code" -> <<"{">> \o dots(K_explanation) \o <<"}">>
          [] e = "post_exploit_search" ->
               <<"{", DQ>> \o K_exploits \o <<DQ, ":", " ", "[", "{">>
               \o dots(<<"t","i","t","l","e">>) \o also \o dots(<<"l","i","n","k">>)
               \o also \o dots(<<"s","e","v","e","r","i","t","y">>) \o also
               \o dots(<<"d","e","s","c","r","i","p","t","i","o","n">>)
               \o <<"}", "]">> \o also \o dots(K_explanation) \o <<"}">>
          [] OTHER -> <<>>

ObjectReplies(e) ==
    {RenderObject(e, a) :
        a \in [RequiredFields(e) \cup {<<"a">>} -> {"absent", "good", "bad"}]}

\* the object with every required field well typed
GoodObject(e) == RenderObject(e, [k \in RequiredFields(e) |-> "good"])

OtherReplies(e) ==
    { <<>>, <<" ", NL>>, <<"x">>,
      <<"[", DQ, "x", DQ, "]">>, <<DQ, "x", DQ>>,
      FenceJson \o <<NL>> \o GoodObject(e) \o <<NL>> \o Fence,
      SubSeq(GoodObject(e), 1, Len(GoodObject(e)) - 1) \o <<",", "}">> }

Replies(e) ==
    IF e = "chat" THEN {<<>>, <<"x">>}
    ELSE ObjectReplies(e) \cup OtherReplies(e) \cup {response_format(e)}

\* RAGSystem.__init__: no store yet
NoStore == [exists |-> FALSE, id |-> 0, docs |-> <<>>]

NoReturn ==
    [kind |-> "none", exc |-> "none", text |-> <<>>, docs |-> <<>>,
     flag |-> FALSE, store |-> NoStore]

\* the RAG system is not part of the behaviour
RagUnused ==
    /\ env = [dir_exists |-> FALSE, files |-> <<>>,
              catalog |-> [kind |-> "missing", entries |-> <<>>]]
    /\ vector_store = NoStore
    /\ op = "none" /\ rpc = "idle"
    /\ documents = <<>> /\ splits = <<>> /\ retrieved = <<>> /\ rag_content = <<>>
    /\ result = NoReturn
    /\ loads = 0 /\ embeds = 0 /\ stores = 0 /\ ncalls = 0

(***************************************************************************)
(* The handlers as state machines: one request, from the prompt to what    *)
(* the caller receives.                                                    *)
(***************************************************************************)
Init ==
    /\ shape = "reply" /\ fill = <<>>
    /\ endpoint = "none" /\ pc = "idle"
    /\ raw = None /\ response_text = None /\ cleaned = None /\ parsed = None
    /\ exc = "none" /\ calls = 0 /\ outcome = NoOutcome
    /\ RagUnused
    /\ loop = 0 /\ req = <<>>
    /\ tree = <<>> /\ full_path = <<>> /\ served = None
    /\ task = <<>> /\ queries = {}

\* the request reaches handler e, which formats its prompt
Receive(e) ==
    /\ pc = "idle"
    /\ endpoint' = e /\ pc' = "prompted"
    /\ UNCHANGED <<shape, fill, raw, response_text, cleaned, parsed, exc, calls,
                   outcome>>
    /\ UNCHANGED <<ragvars, lvars, svars, pvars>>

\* server.py: the handler's prompt_* call, which stands before the try block,
\* raises what the similarity search of generate_rag_content raised (api.py
\* and main.py call prompt methods that chatbot.py does not have)
PromptRaises(e) ==
    /\ pc = "idle" /\ e \in ServerEndpoints
    /\ endpoint' = e /\ exc' = "EmbeddingError"
    /\ outcome' = [NoOutcome EXCEPT !.kind = "Unhandled", !.details = "EmbeddingError"]
    /\ pc' = "done"
    /\ UNCHANGED <<shape, fill, raw, response_text, cleaned, parsed, calls>>
    /\ UNCHANGED <<ragvars, lvars, svars, pvars>>

\* run_in_threadpool(chatbot.llm, ...) returns the reply r.  chat and main.py
\* assign it to response_text at once; api.py assigns the cleaned text later;
\* server.py has no such variable
LlmReturns ==
    /\ pc = "prompted"
    /\ \E r \in Replies(endpoint) :
          /\ raw' = r
          /\ response_text' =
                IF endpoint \in {"main_generate_command"} \cup {"chat"} THEN r ELSE response_text
    /\ calls' = calls + 1 /\ pc' = "generated"
    /\ UNCHANGED <<shape, fill, endpoint, cleaned, parsed, exc, outcome>>
    /\ UNCHANGED <<ragvars, lvars, svars, pvars>>

\* a handler that calls the generation function again after a failure
LlmRaisesRetries ==
    /\ pc = "prompted"
    /\ calls' = calls + 1 /\ exc' = "LLMError"
    /\ outcome' = IF calls = 0 THEN outcome
                  ELSE Raise(endpoint, "LLMError", response_text, None)
    /\ pc' = IF calls = 0 THEN "prompted" ELSE "done"
    /\ UNCHANGED <<shape, fill, endpoint, raw, response_text, cleaned, parsed>>
    /\ UNCHANGED <<ragvars, lvars, svars, pvars>>

\* the generation call raises: the handler's except clause answers
LlmRaises ==
    /\ pc = "prompted"
    /\ calls' = calls + 1 /\ exc' = "LLMError"
    /\ outcome' = Raise(endpoint, "LLMError", response_text, None)
    /\ pc' = "done"
    /\ UNCHANGED <<shape, fill, endpoint, raw, response_text, cleaned, parsed>>
    /\ UNCHANGED <<ragvars, lvars, svars, pvars>>

\* api.py chat: the reply is returned as the message (after sanitize_text,
\* whose effect on the message no property here reads)
ChatReturns ==
    /\ pc = "generated" /\ endpoint = "chat"
    /\ outcome' = [NoOutcome EXCEPT !.kind = "Accepted", !.http = HTTP_OK]
    /\ pc' = "done"
    /\ UNCHANGED <<shape, fill, endpoint, raw, response_text, cleaned, parsed, exc,
                   calls>>
    /\ UNCHANGED <<ragvars, lvars, svars, pvars>>

\* clean_json_response on the reply
Clean ==
    /\ pc = "generated" /\ endpoint \in (Endpoints \ {"chat"})
    /\ cleaned' = clean_json_response(raw)
    /\ response_text' =
          IF endpoint \in ApiEndpoints THEN clean_json_response(raw) ELSE response_text
    /\ pc' = "cleaned"
    /\ UNCHANGED <<shape, fill, endpoint, raw, parsed, exc, calls, outcome>>
    /\ UNCHANGED <<ragvars, lvars, svars, pvars>>

\* json.loads succeeds
Parse ==
    /\ pc = "cleaned" /\ IsJson(cleaned)
    /\ parsed' = JsonLoads(cleaned).val
    /\ pc' = "parsed"
    /\ UNCHANGED <<shape, fill, endpoint, raw, response_text, cleaned, exc, calls,
                   outcome>>
    /\ UNCHANGED <<ragvars, lvars, svars, pvars>>

\* json.loads raises json.JSONDecodeError
ParseFails ==
    /\ pc = "cleaned" /\ ~IsJson(cleaned)
    /\ exc' = "JSONDecodeError"
    /\ outcome' = Raise(endpoint, "JSONDecodeError", response_text, raw)
    /\ pc' = "done"
    /\ UNCHANGED <<shape, fill, endpoint, raw, response_text, cleaned, parsed, calls>>
    /\ UNCHANGED <<ragvars, lvars, svars, pvars>>

\* the rest of the try block
Respond ==
    /\ pc = "parsed"
    /\ exc' = Validate(endpoint, parsed, response_text, raw).exc
    /\ outcome' = Validate(endpoint, parsed, response_text, raw).out
    /\ pc' = "done"
    /\ UNCHANGED <<shape, fill, endpoint, raw, response_text, cleaned, parsed, calls>>
    /\ UNCHANGED <<ragvars, lvars, svars, pvars>>

Next ==
    \/ \E e \in Endpoints : Receive(e)
    \/ \E e \in Endpoints : PromptRaises(e)
    \/ LlmReturns
    \/ LlmRaises
    \/ ChatReturns
    \/ Clean
    \/ Parse
    \/ ParseFails
    \/ Respond

Spec == Init /\ [][Next]_vars

(***************************************************************************)
(* clean_json_response as a function of its text: the texts are forms a    *)
(* reply takes (a document, a fenced document, a dictionary literal, a     *)
(* document with trailing commas, a commands array holding the explanation *)
(* key) around a free text of at most MaxFill fragments.                   *)
(***************************************************************************)
MaxFill == 2

RECURSIVE FillsUpTo(_)
FillsUpTo(n) ==
    IF n = 0 THEN {<<>>}
    ELSE FillsUpTo(n - 1) \cup {f \o g : f \in FillsUpTo(n - 1), g \in { <<"x">>, <<" ">>,
            <<",">>, <<"]">>, <<SQ>>, EscapedDouble, EscapedSingle, Fence, FenceJson }}

\* the text of form s around the free text V
Render(s, V) ==
    CASE s = "plain" ->
            <<"{",DQ,"a",DQ,":"," ",DQ>> \o V \o <<DQ,"}">>
      [] s = "padded" ->
            <<" ",NL,"{",DQ,"a",DQ,":"," ",DQ>> \o V \o <<DQ,"}",NL," ">>
      [] s = "json_fence" ->
            <<BT,BT,BT,"j","s","o","n",NL,"{",DQ,"a",DQ,":"," ",DQ>> \o V \o <<DQ,"}",NL,BT,BT,BT>>
      [] s = "bare_fence" ->
            <<BT,BT,BT,NL,"{",DQ,"a",DQ,":"," ",DQ>> \o V \o <<DQ,"}",NL,BT,BT,BT>>
      [] s = "single" ->
            <<"{",SQ,"a",SQ,":"," ",SQ>> \o V \o <<SQ,","," ",SQ,"b",SQ,":"," ","[",SQ>>
                    \o V \o <<SQ,"]","}">>
      [] s = "mixed" ->
            <<"{",SQ,"a",SQ,":"," ",SQ>> \o V \o <<SQ,","," ",DQ,"b",DQ,":"," ",DQ,"x",DQ,"}">>
      [] s = "trailing" ->
            <<"{",DQ,"a",DQ,":"," ","[","1",",","2",",","]",","," ",DQ,"b",DQ,":"," ",DQ>> \o V \o <<DQ,",","}">>
      [] s = "structural" ->
            <<"{",DQ,"c","o","m","m","a","n","d","s",DQ,":"," ","[",DQ>> \o V
                    \o <<DQ,","," ",DQ,"e","x","p","l","a","n","a","t","i","o","n",DQ,":"," ",DQ,"y",DQ,"]","}">>
      [] s = "structural_y" ->
            <<"{",DQ,"c","o","m","m","a","n","d","s",DQ,":"," ","[",DQ,"x",DQ,","," ",DQ,"e","x","p","l","a","n","a","t","i","o","n",DQ,":"," ",DQ>> \o V \o <<DQ,"]","}">>
      [] s = "combined" ->
            <<BT,BT,BT,"j","s","o","n",NL,"{",DQ,"c","o","m","m","a","n","d","s",DQ,":"," ","[",DQ>> \o V \o <<DQ,","," ",DQ,"e","x","p","l","a","n","a","t","i","o","n",DQ,":"," ",DQ,"y",DQ,",","]",","," ",DQ,"e","x","t","r","a",DQ,":"," ",DQ,"d","a","t","a",DQ,",","}",NL,BT,BT,BT>>
      [] s = "multi" ->
            <<"{",DQ,"c","o","m","m","a","n","d","s",DQ,":"," ","[",DQ,"x",DQ,","," ",DQ>> \o V \o <<DQ,","," ",DQ,"e","x","p","l","a","n","a","t","i","o","n",DQ,":"," ",DQ,"y",DQ,"]","}">>
      [] OTHER -> V

InitClean ==
    /\ shape \in {"plain", "padded", "json_fence", "bare_fence", "single", "mixed",
            "trailing", "structural", "structural_y", "combined",
            "multi"} /\ fill \in FillsUpTo(MaxFill)
    /\ raw = Render(shape, fill)
    /\ endpoint = "none" /\ pc = "text"
    /\ response_text = None /\ cleaned = None /\ parsed = None
    /\ exc = "none" /\ calls = 0 /\ outcome = NoOutcome
    /\ RagUnused
    /\ loop = 0 /\ req = <<>>
    /\ tree = <<>> /\ full_path = <<>> /\ served = None
    /\ task = <<>> /\ queries = {}

\* clean_json_response(raw)
CleanText ==
    /\ pc = "text"
    /\ cleaned' = clean_json_response(raw)
    /\ pc' = "rewritten"
    /\ UNCHANGED <<shape, fill, endpoint, raw, response_text, parsed, exc, calls,
                   outcome>>
    /\ UNCHANGED <<ragvars, lvars, svars, pvars>>

SpecClean == InitClean /\ [][CleanText]_vars

(***************************************************************************)
(* Properties of clean_json_response, checked under SpecClean.             *)
(***************************************************************************)
\* the text holds neither a single nor a double quote
QuoteFree(V) == \A i \in DOMAIN V : V[i] \notin {SQ, DQ}

\* the document inside the fenced forms
Inner(V) == Render("plain", V)

\* the first parse fails, so the rewrite chain runs
RewritePath(t) == ~IsJson(Strip(StripFences(t)))

\* C1: for every text that is already well-formed JSON, clean_json_response
\* returns that text with only the leading and trailing whitespace removed.
C1_ValidJsonUnchanged ==
    (pc = "rewritten" /\ IsJson(raw)) => cleaned = Strip(raw)

\* C2: for every text that is one fenced block (with or without a language
\* tag) around valid JSON, the cleaned text parses and its payload equals the
\* payload of the inner text.
C2_FencedPayload ==
    (pc = "rewritten" /\ shape \in {"json_fence", "bare_fence"} /\ IsJson(Inner(fill)))
        => /\ IsJson(cleaned)
           /\ JsonLoads(cleaned).val = JsonLoads(Inner(fill)).val

\* C3: for every dictionary literal whose keys and string values are delimited
\* by single quotes and hold no quote character, the result is the same text
\* with each delimiting single quote replaced by a double quote, and it parses.
C3_SingleQuotesConverted ==
    (pc = "rewritten" /\ shape \in {"single", "mixed"} /\ QuoteFree(fill))
        => /\ cleaned = Replace(raw, <<SQ>>, <<DQ>>)
           /\ IsJson(cleaned)

\* C4: on the rewrite path of a single-quote-delimited text, every escaped
\* quote (backslash and single quote, backslash and double quote) of the input
\* stands unchanged at the same position of the output.
C4_EscapedQuotesSurvive ==
    (pc = "rewritten" /\ shape \in {"single", "mixed"} /\ RewritePath(raw))
        => \A i \in DOMAIN raw :
              /\ MatchAt(raw, i, EscapedSingle) => MatchAt(cleaned, i, EscapedSingle)
              /\ MatchAt(raw, i, EscapedDouble) => MatchAt(cleaned, i, EscapedDouble)

\* the text of form "trailing" without its trailing commas
TrailingFixed(V) ==
    <<"{",DQ,"a",DQ,":"," ","[","1",",","2","]",","," ",DQ,"b",DQ,":"," ",DQ>> \o V \o <<DQ,"}">>

\* C5: for a text that is valid JSON but for commas right before a closing
\* bracket or brace, the result is the text without exactly those commas, and
\* it parses.
C5_TrailingCommasRemoved ==
    (pc = "rewritten" /\ shape = "trailing" /\ IsJson(TrailingFixed(fill)))
        => /\ cleaned = TrailingFixed(fill)
           /\ IsJson(cleaned)

\* the repaired text for the command x and the explanation y
Repaired(x, y) ==
    <<"{",DQ,"c","o","m","m","a","n","d","s",DQ,":"," ","[",DQ>> \o x
            \o <<DQ,"]",","," ",DQ,"e","x","p","l","a","n","a","t","i","o","n",DQ,":"," ",DQ>> \o y \o <<DQ,"}">>

\* C6: for any quote-free x and y, the commands array holding the command x
\* and the stray explanation y comes back as the array of x followed by the
\* explanation key in the enclosing object.
C6_StructuralRepair ==
    /\ (pc = "rewritten" /\ shape = "structural" /\ QuoteFree(fill))
          => cleaned = Repaired(fill, <<"y">>)
    /\ (pc = "rewritten" /\ shape = "structural_y" /\ QuoteFree(fill))
          => cleaned = Repaired(<<"x">>, fill)

(***************************************************************************)
(* Properties of the handlers, checked under Spec.                         *)
(***************************************************************************)
\* the handler has answered a reply that parsed to an object lacking a
\* required field
MissingCase ==
    /\ pc = "done" /\ endpoint \in (Endpoints \ {"chat"})
    /\ IsObject(parsed)
    /\ RequiredFields(endpoint) \ DOMAIN parsed[2] # {}

MissingMessage(missing) == <<"Missing required keys in LLM response", missing>>

ApiJsonDone ==
    pc = "done" /\ endpoint \in ApiEndpoints \ {"chat"} /\ calls > 0

\* C9: for every reply text (no JSON, JSON that is no object, an object with
\* fields of a wrong type included) a JSON endpoint handler of api.py ends in
\* exactly one of: a response built from the payload (Accepted), a response of
\* placeholders naming the missing keys (Degraded), a structured HTTP 500
\* (Rejected); no exception escapes the handler.
C9_ThreeOutcomes ==
    ApiJsonDone =>
        LET isObj == exc # "LLMError" /\ IsJson(cleaned) /\ IsObject(parsed)
            missing == IF isObj THEN RequiredFields(endpoint) \ DOMAIN parsed[2]
                       ELSE {}
            valid == isObj /\ missing = {} /\ ModelValidates(endpoint, parsed[2])
        IN
        /\ outcome.kind \in {"Accepted", "Degraded", "Rejected"}
        /\ outcome.kind = "Accepted" <=> valid
        /\ outcome.kind = "Degraded" <=> (isObj /\ missing # {})
        /\ outcome.kind = "Accepted" =>
              /\ outcome.http = HTTP_OK /\ exc = "none"
              /\ outcome.payload = [k \in RequiredFields(endpoint) |-> parsed[2][k]]
        /\ outcome.kind = "Degraded" =>
              /\ outcome.http = HTTP_OK /\ exc = "none"
              /\ outcome.missing = missing
        /\ outcome.kind = "Rejected" =>
              /\ outcome.http = HTTP_INTERNAL_SERVER_ERROR
              /\ exc \in {"LLMError", "JSONDecodeError", "AttributeError",
                          "ValidationError"}

\* search_exploits has rejected an object whose fields have a wrong type
C9_Witness ==
    /\ ApiJsonDone /\ endpoint = "search_exploits"
    /\ exc = "ValidationError" /\ outcome.kind = "Rejected"

Unknown == <<"u","n","k","n","o","w","n">>

\* dict.get(key, default)
Get(d, key, default) == IF key \in DOMAIN d THEN d[key] ELSE default

\* _load_tools_metadata: what json.load gave, or {} when tools.json is
\* missing or the open or the parse raised
load_tools_metadata(catalog) ==
    IF catalog.kind \in {"missing", "unparseable"}
    THEN [isdict |-> TRUE, entries |-> <<>>]
    ELSE [isdict |-> catalog.kind = "object", entries |-> catalog.entries]

\* the metadata _get_file_metadata starts from
DefaultMetadata(filename) ==
    [source |-> filename, tool |-> Unknown, type |-> <<"m","a","n","u","a","l">>,
     category |-> Unknown, subcategory |-> Unknown, description |-> <<>>,
     tags |-> <<>>, use_cases |-> <<>>]

\* _get_file_metadata: the loop over tools_metadata.items() stops at the first
\* entry whose "file" is the filename; .items() of a value that is no dict and
\* .get of an entry that is no dict raise AttributeError
get_file_metadata(filename, tools_metadata) ==
    LET entries == tools_metadata.entries
        bad == {i \in DOMAIN entries : ~entries[i].isdict}
        hit == {i \in DOMAIN entries :
                   /\ entries[i].isdict
                   /\ "file" \in DOMAIN entries[i].info
                   /\ entries[i].info["file"] = filename}
        raises == \/ ~tools_metadata.isdict
                  \/ /\ bad # {}
                     /\ hit # {} => FirstOf(bad) < FirstOf(hit)
        default == DefaultMetadata(filename)
    IN  IF raises THEN [ok |-> FALSE, metadata |-> default]
        ELSE IF hit = {} THEN [ok |-> TRUE, metadata |-> default]
        ELSE LET e == entries[FirstOf(hit)] IN
             [ok |-> TRUE,
              metadata |->
                 [source |-> filename,
                  tool |-> Get(e.info, "name", e.name),
                  type |-> Get(e.info, "type", <<"m","a","n","u","a","l">>),
                  category |-> Get(e.info, "category", Unknown),
                  subcategory |-> Get(e.info, "subcategory", Unknown),
                  description |-> Get(e.info, "description", <<>>),
                  tags |-> Get(e.info, "tags", <<>>),
                  use_cases |-> Get(e.info, "use_cases", <<>>)]]

\* the try block of load_documents succeeds for the file
Loads(file, tools_metadata) ==
    /\ file.txt /\ file.readable
    /\ get_file_metadata(file.name, tools_metadata).ok

\* load_documents that yields a document for a.txt whatever the directory
load_documents_unconditional(e) ==
    <<[page_content |-> <<"x">>, metadata |-> DefaultMetadata(<<"a", ".", "t", "x", "t">>)]>>

\* load_documents: one document per *.txt file whose try block succeeded
load_documents(e) ==
    IF ~e.dir_exists THEN <<>>
    ELSE LET tools_metadata == load_tools_metadata(e.catalog)
             kept == SelectSeq(e.files, LAMBDA f : Loads(f, tools_metadata))
         IN  [i \in DOMAIN kept |->
                 [page_content |-> kept[i].content,
                  metadata |-> get_file_metadata(kept[i].name, tools_metadata).metadata]]

\* chunk_size of the text splitter
chunk_size == 1000

\* split_documents: a document no longer than chunk_size is one chunk, its
\* text stripped; a chunk that strips to nothing is left out
split_documents(docs) ==
    IF docs = <<>> THEN <<>>
    ELSE LET kept == SelectSeq(docs, LAMBDA d :
                        Len(d.page_content) <= chunk_size /\ Strip(d.page_content) # <<>>)
         IN  [i \in DOMAIN kept |->
                 [page_content |-> Strip(kept[i].page_content),
                  metadata |-> kept[i].metadata]]

\* str.join
RECURSIVE Join(_, _)
Join(parts, sep) ==
    IF parts = <<>> THEN <<>>
    ELSE IF Len(parts) = 1 THEN parts[1]
    ELSE parts[1] \o sep \o Join(Tail(parts), sep)

SeparatorWidth == 80

\* "=" * 80
SeparatorLine == [i \in 1..SeparatorWidth |-> "="]

BlankLine == <<NL, NL>>

\* format_context: header_parts of one document, the entries of its header
header_parts(doc) ==
    << <<"T","o","o","l",":"," ">> \o doc.metadata.tool >>
    \o (IF doc.metadata.category # <<>>
        THEN << <<"C","a","t","e","g","o","r","y",":"," ">> \o doc.metadata.category >>
        ELSE <<>>)
    \o (IF doc.metadata.description # <<>>
        THEN << <<"D","e","s","c","r","i","p","t","i","o","n",":"," ">>
                \o doc.metadata.description >>
        ELSE <<>>)
    \o (IF doc.metadata.tags # <<>>
        THEN << <<"T","a","g","s",":"," ">> \o Join(doc.metadata.tags, <<",", " ">>) >>
        ELSE <<>>)

\* format_context: the header and the text of one document
ContextPart(doc) ==
    <<"[">> \o Join(header_parts(doc), <<" ", "|", " ">>)
    \o <<"]",NL,"S","o","u","r","c","e",":"," ">> \o doc.metadata.source
    \o BlankLine \o Strip(doc.page_content)

\* format_context without the test for an empty list
format_context_unguarded(docs) ==
    BlankLine \o SeparatorLine
    \o Join([i \in DOMAIN docs |-> ContextPart(docs[i])], BlankLine)

\* format_context
format_context(docs) ==
    IF docs = <<>> THEN <<>>
    ELSE BlankLine \o SeparatorLine
         \o Join([i \in DOMAIN docs |-> ContextPart(docs[i])], BlankLine)

\* the context left as it is
EscapeNothing(t) == t

\* rag_context.replace('{', '{{').replace('}', '}}')
EscapeBraces(t) == Replace(Replace(t, <<"{">>, <<"{", "{">>), <<"}">>, <<"}", "}">>)

RagFooter ==
    <<NL,NL,"U","s","e"," ","t","h","e"," ","a","b","o","v","e"," ","d",
      "o","c","u","m","e","n","t","a","t","i","o","n"," ","t","o"," ",
      "p","r","o","v","i","d","e"," ","m","o","r","e"," ","a","c","c",
      "u","r","a","t","e"," ","a","n","d"," ","d","e","t","a","i","l",
      "e","d"," ","r","e","s","p","o","n","s","e","s","."," ","R","e",
      "f","e","r","e","n","c","e"," ","s","p","e","c","i","f","i","c",
      " ","t","o","o","l"," ","o","p","t","i","o","n","s",","," ","s",
      "y","n","t","a","x",","," ","a","n","d"," ","e","x","a","m","p",
      "l","e","s"," ","f","r","o","m"," ","t","h","e"," ","d","o","c",
      "u","m","e","n","t","a","t","i","o","n"," ","w","h","e","n"," ",
      "r","e","l","e","v","a","n","t",".",NL,NL>>

\* generate_rag_content from the context get_context_for_template returned
RagContent(rag_context) ==
    IF rag_context # <<>>
    THEN <<NL,"R","E","L","E","V","A","N","T"," ","D","O","C","U","M","E","N",
            "T","A","T","I","O","N",":",NL>> \o EscapeBraces(rag_context) \o RagFooter
    ELSE <<>>

(***************************************************************************)
(* chatbot.py: the prompt is the template with the RAG content appended,   *)
(* formatted by PromptTemplate.format, that is by str.format.              *)
(***************************************************************************)
\* the end of pt_chat's base_template; the text before it holds no brace
BaseTemplate ==
    <<"P","r","e","v","i","o","u","s"," ","c","o","n","v","e","r","s",
      "a","t","i","o","n",":",NL,"{","h","i","s","t","o","r","y","}",NL,
      NL,"U","s","e","r",":"," ","{","m","e","s","s","a","g","e","}",NL,
      "A","s","s","i","s","t","a","n","t",":">>

\* str.format from position i on: "{{" and "}}" are the literal braces, "{"
\* name "}" is the value of name, any other brace is an error and so is a
\* name that has no value
RECURSIVE FormatFrom(_, _, _)
FormatFrom(t, i, values) ==
    LET braces == {j \in i..Len(t) : t[j] \in {"{", "}"}} IN
    IF braces = {} THEN [ok |-> TRUE, text |-> SubSeq(t, i, Len(t))]
    ELSE LET j == FirstOf(braces)
             before == SubSeq(t, i, j - 1)
             closing == {k \in (j + 1)..Len(t) : t[k] = "}"}
             Rest(from, piece) ==
                 LET r == FormatFrom(t, from, values) IN
                 IF r.ok THEN [ok |-> TRUE, text |-> before \o piece \o r.text]
                 ELSE [ok |-> FALSE, text |-> <<>>]
         IN  IF At(t, j + 1) = t[j] THEN Rest(j + 2, <<t[j]>>)
             ELSE IF t[j] = "}" \/ closing = {} THEN [ok |-> FALSE, text |-> <<>>]
             ELSE LET k == FirstOf(closing)
                      name == SubSeq(t, j + 1, k - 1)
                  IN  IF name \in DOMAIN values THEN Rest(k + 1, values[name])
                      ELSE [ok |-> FALSE, text |-> <<>>]

\* prompt_chat: pt_chat.format(message=message, history=history)
prompt_chat(content) == FormatFrom(BaseTemplate \o content, 1,
        ((<<"h","i","s","t","o","r","y">> :> <<"h">>) @@ (<<"m","e","s","s","a","g","e">> :> task)))

\* a pt_chat that searches with the formatted template
SearchQueryFormatted(o) ==
    IF o = "prompt_chat" THEN prompt_chat(<<>>).text ELSE <<"q">>

\* the query similarity_search is called with: pt_chat hands the text of
\* base_template to generate_rag_content, before format has filled it in;
\* the other methods are called with the query q
SearchQuery(o) == IF o = "prompt_chat" THEN BaseTemplate ELSE <<"q">>

(***************************************************************************)
(* The RAG system as a state machine: the methods of RAGSystem and         *)
(* Chatbot.prompt_chat are called one after the other on one RAGSystem;    *)
(* create_vector_store is taken step by step, and every call of the        *)
(* embedding function either returns or raises.                            *)
(***************************************************************************)
MaxCtx == 2

MaxEntries == 2

MaxCalls == 3

\* the default k of similarity_search and of get_relevant_context
TopK == 4

\* the name of a text file
Txt(stem) == <<stem, ".", "t", "x", "t">>

TextFile(name, content) ==
    [name |-> name, txt |-> TRUE, readable |-> TRUE, content |-> content]

\* the directory listings, around one file of the given content
FileLists(content) ==
    { <<>>,
      <<TextFile(Txt("a"), content)>>,
      <<TextFile(Txt("a"), <<" ", NL>>)>>,
      \* with a file TextLoader cannot read
      <<[name |-> Txt("c"), txt |-> TRUE, readable |-> FALSE, content |-> <<>>],
        TextFile(Txt("a"), content)>>,
      <<TextFile(Txt("a"), content), TextFile(Txt("b"), <<"y">>)>>,
      \* with tools.json, which glob("*.txt") does not list
      <<[name |-> <<"t","o","o","l","s",".","j","s","o","n">>, txt |-> FALSE,
         readable |-> TRUE, content |-> <<"{", "}">>],
        TextFile(Txt("a"), content)>> }

\* lists of entries of tools.json: an entry is complete, has the file only,
\* is for another file, or has a value that is no object
RECURSIVE EntryLists(_)
EntryLists(n) ==
    LET entries ==
            { [name |-> <<"n">>, isdict |-> TRUE,
               info |-> [file |-> Txt("a"), name |-> <<"N">>, category |-> <<"c">>,
                         description |-> <<"{", "d", "}">>,
                         tags |-> << <<"g">>, <<"h">> >>]],
              [name |-> <<"p">>, isdict |-> TRUE, info |-> [file |-> Txt("a")]],
              [name |-> <<"z">>, isdict |-> TRUE,
               info |-> [file |-> Txt("z"), name |-> <<"Z">>]],
              [name |-> <<"s">>, isdict |-> FALSE, info |-> [file |-> <<>>]] }
    IN  IF n = 0 THEN {<<>>}
        ELSE EntryLists(n - 1)
             \cup {Append(l, e) : l \in {x \in EntryLists(n - 1) : Len(x) = n - 1},
                                  e \in entries}

\* tools.json: absent, not JSON, a JSON array, a JSON object
Catalogs ==
    { [kind |-> "missing", entries |-> <<>>],
      [kind |-> "unparseable", entries |-> <<>>],
      [kind |-> "array", entries |-> <<>>] }
    \cup {[kind |-> "object", entries |-> l] : l \in EntryLists(MaxEntries)}

\* the texts of a document: up to n fragments, braces and a placeholder of the
\* prompt among them
RECURSIVE ContentsUpTo(_)
ContentsUpTo(n) ==
    LET fragments ==
            { <<"x">>, <<"{">>, <<"}">>, <<"{", "m", "e", "s", "s", "a", "g", "e", "}">> }
    IN  IF n = 0 THEN {<<>>}
        ELSE ContentsUpTo(n - 1)
             \cup {c \o f : c \in ContentsUpTo(n - 1), f \in fragments}

\* the states of the rag_data directory: absent; every listing under every
\* catalog; one file of every content under a catalog that names it
Environments ==
    {[dir_exists |-> FALSE, files |-> <<>>, catalog |-> c] :
        c \in {x \in Catalogs : x.kind = "missing"}}
    \cup {[dir_exists |-> TRUE, files |-> f, catalog |-> c] :
             f \in FileLists(<<"x">>), c \in Catalogs}
    \cup {[dir_exists |-> TRUE, files |-> <<TextFile(Txt("a"), content)>>,
           catalog |-> [kind |-> "missing", entries |-> <<>>]] :
             content \in ContentsUpTo(MaxCtx)}

\* the orders in which similarity_search may rank the k nearest of docs
Rankings(docs, k) ==
    LET m == IF Len(docs) < k THEN Len(docs) ELSE k IN
    {[i \in 1..m |-> docs[f[i]]] :
        f \in {g \in [1..m -> DOMAIN docs] :
                  \A i, j \in 1..m : i # j => g[i] # g[j]}}

\* the callers of create_vector_store that have no try around it
DirectOps == {"create_rag_system", "create_vector_store"}

\* the method returns v, a text, a list of documents, a flag or a store
Return(field, v) == [NoReturn EXCEPT !.kind = "returned", ![field] = v]

Raises(e) == [NoReturn EXCEPT !.kind = "raised", !.exc = e]

\* RAGSystem.__init__
InitRag ==
    /\ shape = "reply" /\ fill = <<>>
    /\ endpoint = "none" /\ pc = "idle"
    /\ raw = None /\ response_text = None /\ cleaned = None /\ parsed = None
    /\ exc = "none" /\ calls = 0 /\ outcome = NoOutcome
    /\ env \in Environments
    /\ vector_store = NoStore
    /\ op = "none" /\ rpc = "idle"
    /\ documents = <<>> /\ splits = <<>> /\ retrieved = <<>> /\ rag_content = <<>>
    /\ result = NoReturn
    /\ loads = 0 /\ embeds = 0 /\ stores = 0 /\ ncalls = 0
    /\ loop = 0 /\ req = <<>>
    /\ tree = <<>> /\ full_path = <<>> /\ served = None
    /\ task = <<>> /\ queries = {}

\* a method is called
Call(o) ==
    /\ rpc = "idle" /\ ncalls < MaxCalls
    /\ op' = o /\ ncalls' = ncalls + 1
    /\ rpc' = CASE o \in DirectOps -> "create"
                [] o = "get_relevant_context" -> "search"
                [] o = "load_documents" -> "load"
                [] OTHER -> "available"
    /\ documents' = <<>> /\ splits' = <<>> /\ retrieved' = <<>>
    /\ rag_content' = <<>> /\ result' = NoReturn
    /\ IF o = "prompt_chat" THEN task' \in {<<"{", "q", "}">>, <<"r">>}
       ELSE task' = <<>>
    /\ UNCHANGED <<env, vector_store, loads, embeds, stores, queries, hvars, lvars,
                   svars>>

\* load_documents called on its own
LoadDocuments ==
    /\ rpc = "load"
    /\ result' = Return("docs", load_documents(env))
    /\ loads' = loads + 1
    /\ rpc' = "idle"
    /\ UNCHANGED <<env, vector_store, op, documents, splits, retrieved,
                   rag_content, embeds, stores, ncalls, hvars, lvars, svars, pvars>>

\* is_available: the test of line 175; with a store it returns True to its
\* caller, get_context_for_template goes on to the search
IsAvailable ==
    /\ rpc = "available"
    /\ IF ~vector_store.exists
       THEN rpc' = "create" /\ result' = result
       ELSE IF op = "is_available"
            THEN rpc' = "idle" /\ result' = Return("flag", TRUE)
            ELSE rpc' = "search" /\ result' = result
    /\ UNCHANGED <<env, vector_store, op, documents, splits, retrieved,
                   rag_content, loads, embeds, stores, ncalls, hvars, lvars, svars, pvars>>

\* create_vector_store returns the store vs, which is then vector_store
CreateReturns(vs) ==
    /\ vector_store' = vs
    /\ IF op \in DirectOps
       THEN rpc' = "idle" /\ result' = Return("store", vs)
       ELSE IF op = "is_available"
            THEN rpc' = "idle" /\ result' = Return("flag", vs.exists)
            ELSE rpc' = "search" /\ result' = result

\* create_vector_store that loads the documents again although a store exists
CreateExistingReloads ==
    /\ rpc = "create" /\ vector_store.exists
    /\ documents' = load_documents(env)
    /\ loads' = loads + 1
    /\ CreateReturns(vector_store)
    /\ UNCHANGED <<env, op, splits, retrieved, rag_content, embeds, stores,
                   ncalls, hvars, lvars, svars, pvars>>

\* create_vector_store with a store: line 119
CreateExisting ==
    /\ rpc = "create" /\ vector_store.exists
    /\ CreateReturns(vector_store)
    /\ UNCHANGED <<env, op, documents, splits, retrieved, rag_content, loads,
                   embeds, stores, ncalls, hvars, lvars, svars, pvars>>

\* create_vector_store without a store: line 122
CreateLoads ==
    /\ rpc = "create" /\ ~vector_store.exists
    /\ documents' = load_documents(env)
    /\ loads' = loads + 1
    /\ rpc' = "loaded"
    /\ UNCHANGED <<env, vector_store, op, splits, retrieved, rag_content, result,
                   embeds, stores, ncalls, hvars, lvars, svars, pvars>>

\* lines 123 to 132: the new store is assigned to vector_store; without
\* documents or splits the method returns it
CreateAssigns ==
    /\ rpc = "loaded"
    /\ stores' = stores + 1
    /\ LET vs == [exists |-> TRUE, id |-> stores + 1, docs |-> <<>>]
           sp == IF documents = <<>> THEN <<>> ELSE split_documents(documents)
       IN  /\ splits' = sp
           /\ IF sp = <<>>
              THEN CreateReturns(vs)
              ELSE vector_store' = vs /\ rpc' = "assigned" /\ result' = result
    /\ UNCHANGED <<env, op, documents, retrieved, rag_content, loads, embeds,
                   ncalls, hvars, lvars, svars, pvars>>

\* line 133: add_documents embeds the splits and stores them
CreateAdds ==
    /\ rpc = "assigned"
    /\ embeds' = embeds + 1
    /\ CreateReturns([vector_store EXCEPT !.docs = splits])
    /\ UNCHANGED <<env, op, documents, splits, retrieved, rag_content, loads,
                   stores, ncalls, hvars, lvars, svars, pvars>>

\* line 133: the embedding function raises; the exception leaves
\* create_vector_store, and is_available turns it into False
CreateAddFails ==
    /\ rpc = "assigned"
    /\ embeds' = embeds + 1
    /\ IF op \in DirectOps
       THEN rpc' = "idle" /\ result' = Raises("EmbeddingError")
       ELSE IF op = "is_available"
            THEN rpc' = "idle" /\ result' = Return("flag", FALSE)
            ELSE IF op = "get_context_for_template"
                 THEN rpc' = "idle" /\ result' = Return("text", <<>>)
                 ELSE rpc' = "format" /\ result' = result
    /\ rag_content' = <<>>
    /\ UNCHANGED <<env, vector_store, op, documents, splits, retrieved, loads,
                   stores, ncalls, hvars, lvars, svars, pvars>>

\* get_relevant_context without a store: the attribute access on None raises
\* inside the try
SearchUnbuilt ==
    /\ rpc = "search" /\ ~vector_store.exists
    /\ result' = Return("docs", <<>>)
    /\ rpc' = "idle"
    /\ UNCHANGED <<env, vector_store, op, documents, splits, retrieved,
                   rag_content, loads, embeds, stores, ncalls, hvars, lvars, svars, pvars>>

\* similarity_search embeds the query and returns the nearest chunks
SearchReturns ==
    /\ rpc = "search" /\ vector_store.exists
    /\ embeds' = embeds + 1
    /\ \E r \in Rankings(vector_store.docs, TopK) :
          LET rag_context == IF r # <<>> THEN format_context(r) ELSE <<>> IN
          /\ retrieved' = r
          /\ IF op = "get_relevant_context"
             THEN rpc' = "idle" /\ result' = Return("docs", r)
                  /\ rag_content' = rag_content
             ELSE IF op = "get_context_for_template"
                  THEN rpc' = "idle" /\ result' = Return("text", rag_context)
                       /\ rag_content' = rag_content
                  ELSE rpc' = "format" /\ result' = result
                       /\ rag_content' = RagContent(rag_context)
    /\ queries' = IF op # "prompt_chat" THEN queries
                  ELSE queries \cup {[by |-> op, task |-> task, text |-> SearchQuery(op)]}
    /\ UNCHANGED <<env, vector_store, op, documents, splits, loads, stores,
                   ncalls, hvars, lvars, svars, task>>

\* similarity_search: the embedding function raises; get_relevant_context
\* has a try around the call, get_context_for_template has none
SearchFails ==
    /\ rpc = "search" /\ vector_store.exists
    /\ embeds' = embeds + 1
    /\ result' = IF op = "get_relevant_context" THEN Return("docs", <<>>)
                 ELSE Raises("EmbeddingError")
    /\ rpc' = "idle"
    /\ queries' = IF op # "prompt_chat" THEN queries
                  ELSE queries \cup {[by |-> op, task |-> task, text |-> SearchQuery(op)]}
    /\ UNCHANGED <<env, vector_store, op, documents, splits, retrieved,
                   rag_content, loads, stores, ncalls, hvars, lvars, svars, task>>

\* prompt_chat: the template with the RAG content is formatted
FormatPrompt ==
    /\ rpc = "format"
    /\ LET r == prompt_chat(rag_content) IN
       result' = IF r.ok THEN Return("text", r.text) ELSE Raises("FormatError")
    /\ rpc' = "idle"
    /\ UNCHANGED <<env, vector_store, op, documents, splits, retrieved,
                   rag_content, loads, embeds, stores, ncalls, hvars, lvars, svars, pvars>>

NextRag ==
    \/ \E o \in {"create_rag_system", "create_vector_store", "is_available",
            "get_relevant_context", "get_context_for_template", "prompt_chat",
            "load_documents"} : Call(o)
    \/ LoadDocuments
    \/ IsAvailable
    \/ CreateExisting
    \/ CreateLoads
    \/ CreateAssigns
    \/ CreateAdds
    \/ CreateAddFails
    \/ SearchUnbuilt
    \/ SearchReturns
    \/ SearchFails
    \/ FormatPrompt

SpecRag == InitRag /\ [][NextRag]_vars

(***************************************************************************)
(* Properties of the RAG system and of the prompt, checked under SpecRag.  *)
(***************************************************************************)
\* a method has ended
Ended(o) == op = o /\ rpc = "idle" /\ result.kind # "none"

\* the prompt without any RAG content
PlainPrompt == prompt_chat(<<>>).text

\* C11: for every context block, blocks holding "{" and "}" included, the
\* block escaped by generate_rag_content, appended to the template and
\* formatted with the prompt's values stands in the final prompt character for
\* character as it was before the escaping; the formatting raises no error and
\* substitutes nothing into the block.
C11_ContextSurvivesFormat ==
    (Ended("prompt_chat") /\ retrieved # <<>>)
        => /\ result.kind = "returned"
           /\ result.text =
                 PlainPrompt \o <<NL,"R","E","L","E","V","A","N","T"," ","D","O","C","U","M","E","N", "T","A","T","I","O","N",":",NL>> \o format_context(retrieved) \o RagFooter

\* prompt_chat has returned a prompt whose context holds the text {message}
C11_Witness ==
    /\ Ended("prompt_chat") /\ result.kind = "returned"
    /\ Len(retrieved) = 1
    /\ retrieved[1].page_content = <<"{", "m", "e", "s", "s", "a", "g", "e", "}">>

\* C12: a query against an index that holds no entries, or that is not built,
\* returns an empty result and never raises: get_relevant_context returns the
\* empty list and get_context_for_template the empty text.
C12_EmptyIndexEmptyResult ==
    (rpc = "idle" /\ op \in {"get_relevant_context", "get_context_for_template"}
                  /\ vector_store.docs = <<>>)
        => /\ result.kind = "returned"
           /\ result.docs = <<>>
           /\ result.text = <<>>

\* C13: when the embedding or similarity-search call fails while the context
\* of a prompt is retrieved, generate_rag_content yields the empty text, the
\* prompt is built without context and the request goes on to the generation
\* call.
C13_RetrievalFailureAbsorbed ==
    (op = "prompt_chat" /\ rpc = "idle" /\ result.kind # "none" /\ retrieved = <<>>)
        => /\ result.kind = "returned"
           /\ rag_content = <<>>
           /\ result.text = PlainPrompt

\* C14: when the embedding function fails while the index is built by
\* create_vector_store, reached through create_rag_system or is_available,
\* the error is caught and does not reach the caller.
C14_BuildFailureCaught ==
    (rpc = "idle" /\ op \in {"create_rag_system", "is_available"}
                  /\ result.kind # "none")
        => result.kind = "returned"

\* C15: once the index is built, every further call of create_vector_store,
\* made directly or by is_available, is a no-op: it returns the same store
\* object, leaves vector_store as it is, loads no documents and calls the
\* embedding function not once more.
C15_BuiltStoreKept ==
    [][ (rpc \in {"create", "available"} /\ vector_store.exists)
           => /\ vector_store' = vector_store
              /\ loads' = loads /\ embeds' = embeds /\ stores' = stores
              /\ op \in DirectOps => result' = Return("store", vector_store)
              /\ op = "is_available" => result' = Return("flag", TRUE)
              /\ rpc' \in {"idle", "search"} ]_vars

\* create_rag_system or is_available built the index, a query followed, and
\* create_vector_store then returned the store without loading or embedding
C15_Witness ==
    /\ Ended("create_vector_store") /\ result.kind = "returned"
    /\ ncalls = 3 /\ loads = 1 /\ embeds = 2 /\ stores = 1
    /\ vector_store.docs # <<>>
    /\ result.store = vector_store

\* C16: in every reachable state vector_store is None or a collection that
\* holds all chunks of all loaded documents, so that no query sees an empty or
\* partly filled index of a corpus that is not empty.
C16_StoreNoneOrComplete ==
    vector_store.exists
        => vector_store.docs = split_documents(load_documents(env))

\* C17: load_documents returns the empty list, and does not raise, when the
\* corpus directory does not exist.
C17_MissingDirectory ==
    (op = "load_documents" /\ rpc = "idle" /\ ncalls > 0 /\ ~env.dir_exists)
        => result = Return("docs", <<>>)

\* load_documents has returned for a directory that does not exist
C17_Witness ==
    /\ Ended("load_documents") /\ ~env.dir_exists
    /\ result.kind = "returned" /\ result.docs = <<>> /\ loads > 0

\* a *.txt file of the directory that TextLoader can read
ReadableFiles == {i \in DOMAIN env.files : env.files[i].txt /\ env.files[i].readable}

\* tools.json gives the file no metadata: it is missing, unparseable, no
\* object of objects, or has no entry for the file
NoCatalogEntry(name) ==
    \/ env.catalog.kind # "object"
    \/ \E i \in DOMAIN env.catalog.entries : ~env.catalog.entries[i].isdict
    \/ \A i \in DOMAIN env.catalog.entries :
          Get(env.catalog.entries[i].info, "file", <<>>) # name

\* C18: load_documents produces a record for every readable text file of the
\* corpus directory whatever the state of the catalog; when the catalog is
\* missing, unparseable, malformed in shape or without an entry for the file,
\* the record has the default metadata, and no file is dropped.
C18_RecordForEveryFile ==
    (Ended("load_documents") /\ env.dir_exists)
        => /\ result.kind = "returned"
           /\ Len(result.docs) = Cardinality(ReadableFiles)
           /\ \A i \in ReadableFiles :
                 \E j \in DOMAIN result.docs :
                    /\ result.docs[j].metadata.source = env.files[i].name
                    /\ result.docs[j].page_content = env.files[i].content
                    /\ NoCatalogEntry(env.files[i].name)
                          => result.docs[j].metadata = DefaultMetadata(env.files[i].name)

\* C19: format_context returns the empty text if and only if the list of
\* retrieved chunks is empty, and so no RAG content (no RELEVANT
\* DOCUMENTATION section) is produced when no chunk was retrieved.
C19_EmptyIffNoChunks ==
    /\ format_context(retrieved) = <<>> <=> retrieved = <<>>
    /\ \A r \in Rankings(vector_store.docs, TopK) :
          format_context(r) = <<>> <=> r = <<>>
    /\ (Ended("get_context_for_template") /\ result.kind = "returned"
           /\ retrieved = <<>>) => result.text = <<>>
    /\ (op = "prompt_chat" /\ rpc = "format" /\ retrieved = <<>>)
          => rag_content = <<>>
    /\ (Ended("prompt_chat") /\ result.kind = "returned" /\ retrieved = <<>>)
          => result.text = PlainPrompt

\* prompt_chat has returned after a search of an empty index found no chunk
C19_Witness ==
    /\ Ended("prompt_chat") /\ result.kind = "returned"
    /\ vector_store.exists /\ vector_store.docs = <<>> /\ splits = <<>>
    /\ embeds = 1 /\ retrieved = <<>>
    /\ result.text = PlainPrompt

\* part b follows part a in t with the separator line between them
SeparatedIn(t, a, b) ==
    \E p \in DOMAIN t, q \in DOMAIN t, u \in DOMAIN t :
        /\ MatchAt(t, p, a)
        /\ q >= p + Len(a) /\ MatchAt(t, q, SeparatorLine)
        /\ u >= q + SeparatorWidth /\ MatchAt(t, u, b)

\* C20: format_context joins the blocks of the chunks with the separator line
\* of 80 "=": for two or more chunks the separator stands between every two
\* consecutive blocks, in the order of the ranked result.
C20_SeparatorBetweenBlocks ==
    (Ended("get_context_for_template") /\ result.kind = "returned")
        => \A i \in 1..(Len(retrieved) - 1) :
              SeparatedIn(result.text, ContextPart(retrieved[i]),
                          ContextPart(retrieved[i + 1]))

(***************************************************************************)
(* The server's event loop: the async handlers of the requests in flight   *)
(* run on one thread, one at a time, and give the thread up only at an     *)
(* await.  A handler calls prompt_*, and with it the similarity search,    *)
(* directly; it awaits the generation call in the thread pool.             *)
(***************************************************************************)
MaxRequests == 3

InitLoop ==
    /\ loop = 0 /\ req = [i \in 1..MaxRequests |-> "queued"]
    /\ shape = "loop" /\ fill = <<>>
    /\ endpoint = "none" /\ pc = "idle"
    /\ raw = None /\ response_text = None /\ cleaned = None /\ parsed = None
    /\ exc = "none" /\ calls = 0 /\ outcome = NoOutcome
    /\ RagUnused
    /\ tree = <<>> /\ full_path = <<>> /\ served = None
    /\ task = <<>> /\ queries = {}

\* the loop starts the handler of request i, which runs up to the call of
\* similarity_search inside prompt_*
Dispatch(i) ==
    /\ loop = 0 /\ req[i] = "queued"
    /\ loop' = i /\ req' = [req EXCEPT ![i] = "retrieving"]
    /\ UNCHANGED <<hvars, ragvars, svars, pvars>>

\* the similarity search of request i ends: when it returned, the handler
\* goes on to "await run_in_threadpool(...)" and leaves the loop; when it
\* raised, the exception ends the handler
RetrievalEnds(i) ==
    /\ loop = i /\ req[i] = "retrieving"
    /\ \E next \in {"pooled", "failed"} : req' = [req EXCEPT ![i] = next]
    /\ loop' = 0
    /\ UNCHANGED <<hvars, ragvars, svars, pvars>>

\* the generation call of request i ends in its worker thread
GenerationEnds(i) ==
    /\ req[i] = "pooled"
    /\ req' = [req EXCEPT ![i] = "ready"]
    /\ UNCHANGED <<hvars, ragvars, svars, pvars, loop>>

\* the loop resumes the handler of request i after the await: the rest of
\* the try block, which calls nothing that blocks
Resume(i) ==
    /\ loop = 0 /\ req[i] = "ready"
    /\ \E next \in {"done", "failed"} : req' = [req EXCEPT ![i] = next]
    /\ UNCHANGED <<hvars, ragvars, svars, pvars, loop>>

NextLoop ==
    \E i \in 1..MaxRequests :
        \/ Dispatch(i)
        \/ RetrievalEnds(i)
        \/ GenerationEnds(i)
        \/ Resume(i)

SpecLoop == InitLoop /\ [][NextLoop]_vars

(***************************************************************************)
(* serve_spa and get_static_files.  A path text is a sequence of tokens,   *)
(* "/" being the separator; a name is the sequence of tokens between two   *)
(* separators.  The file system maps the absolute location of each entry   *)
(* (a sequence of names from the root) to "file" or "dir".  The server     *)
(* runs in /srv, so that static_dir, Path("static"), is /srv/static.       *)
(***************************************************************************)
MaxTokens == 4

RECURSIVE PathsUpTo(_)
PathsUpTo(n) ==
    IF n = 0 THEN {<<>>}
    ELSE PathsUpTo(n - 1) \cup {Append(t, k) : t \in PathsUpTo(n - 1), k \in {"/", "..",
            "api", "a", "d", "secret"}}

\* the files the server may find: beside static_dir there is /srv/secret and
\* /secret; static_dir holds api/a and may hold index.html (a file or a
\* directory), the file a and the directory d with or without its index.html
Trees ==
    LET at(names, kind) == names :> kind
        static == <<<<"srv">>, <<"static">>>>
        index == <<"index.html">>
        base ==
            at(<<>>, "dir") @@ at(<<<<"srv">>>>, "dir") @@ at(static, "dir")
            @@ at(<<<<"secret">>>>, "file") @@ at(<<<<"srv">>, <<"secret">>>>, "file")
            @@ at(static \o <<<<"api">>>>, "dir")
            @@ at(static \o <<<<"api">>, <<"a">>>>, "file")
    IN  {base @@ i @@ a @@ d :
            i \in {<<>>, at(Append(static, index), "file"),
                         at(Append(static, index), "dir")},
            a \in {<<>>, at(Append(static, <<"a">>), "file")},
            d \in {<<>>, at(Append(static, <<"d">>), "dir"),
                         at(Append(static, <<"d">>), "dir")
                         @@ at(static \o <<<<"d">>, index>>, "file")}}

\* get_static_dir(): Path("static")
static_dir == [abs |-> FALSE, parts |-> <<<<"static">>>>]

\* the names of a path text: pathlib drops empty names
RECURSIVE SplitPath(_, _, _)
SplitPath(t, cur, acc) ==
    IF t = <<>> THEN (IF cur = <<>> THEN acc ELSE Append(acc, cur))
    ELSE IF Head(t) = "/"
         THEN SplitPath(Tail(t), <<>>, IF cur = <<>> THEN acc ELSE Append(acc, cur))
    ELSE SplitPath(Tail(t), Append(cur, Head(t)), acc)

\* pathlib's p / text: an absolute text replaces p; ".." names are kept
JoinPath(p, text) ==
    IF text # <<>> /\ Head(text) = "/"
    THEN [abs |-> TRUE, parts |-> SplitPath(text, <<>>, <<>>)]
    ELSE [abs |-> p.abs, parts |-> p.parts \o SplitPath(text, <<>>, <<>>)]

\* the operating system's walk from node along parts: every name on the way
\* is looked up in a directory, ".." is the parent (the root is its own)
RECURSIVE Walk(_, _)
Walk(node, parts) ==
    IF parts = <<>> THEN node
    ELSE IF node \notin DOMAIN tree \/ tree[node] # "dir" THEN <<<<"/">>>>
    ELSE Walk(IF Head(parts) = <<"..">>
              THEN SubSeq(node, 1, Len(node) - 1)
              ELSE Append(node, Head(parts)),
              Tail(parts))

\* where path p lies in the file system (the server's directory is /srv)
Locate(p) == Walk(IF p.abs THEN <<>> ELSE <<<<"srv">>>>, p.parts)

\* what stat finds at p: Path.is_file, Path.is_dir and Path.exists read it
Kind(p) == IF Locate(p) \in DOMAIN tree THEN tree[Locate(p)] ELSE "absent"

FileResponse(p) == [kind |-> "FileResponse", path |-> p, status_code |-> 200]

NoFile == [kind |-> "None", path |-> static_dir, status_code |-> 0]

\* get_static_files with the fallback tried before the directory index
get_static_files_fallback_first(path, dir) ==
    IF Len(path) >= 2 /\ path[1] = "api" /\ path[2] = "/" THEN NoFile
    ELSE LET file_path == JoinPath(dir, path) IN
         IF Kind(file_path) = "file" THEN FileResponse(file_path)
         ELSE IF Kind(JoinPath(dir, <<"index.html">>)) # "absent"
              THEN FileResponse(JoinPath(dir, <<"index.html">>))
         ELSE IF Kind(file_path) = "dir"
                 /\ Kind(JoinPath(file_path, <<"index.html">>)) = "file"
              THEN FileResponse(JoinPath(file_path, <<"index.html">>))
         ELSE NoFile

\* helpers.py get_static_files(full_path, static_dir)
get_static_files(path, dir) ==
    IF Len(path) >= 2 /\ path[1] = "api" /\ path[2] = "/" THEN NoFile
    ELSE LET file_path == JoinPath(dir, path) IN
         IF Kind(file_path) = "file" THEN FileResponse(file_path)
         ELSE IF Kind(file_path) = "dir"
                 /\ Kind(JoinPath(file_path, <<"index.html">>)) = "file"
              THEN FileResponse(JoinPath(file_path, <<"index.html">>))
         ELSE IF Kind(JoinPath(dir, <<"index.html">>)) # "absent"
              THEN FileResponse(JoinPath(dir, <<"index.html">>))
         ELSE NoFile

InitStatic ==
    /\ tree \in Trees /\ full_path \in PathsUpTo(MaxTokens)
    /\ served = [kind |-> "pending", path |-> static_dir, status_code |-> 0]
    /\ loop = 0 /\ req = <<>>
    /\ shape = "static" /\ fill = <<>>
    /\ endpoint = "none" /\ pc = "idle"
    /\ raw = None /\ response_text = None /\ cleaned = None /\ parsed = None
    /\ exc = "none" /\ calls = 0 /\ outcome = NoOutcome
    /\ RagUnused
    /\ task = <<>> /\ queries = {}

\* server.py serve_spa: the file, or HTTPException 404 "File not found"
serve_spa ==
    /\ served.kind = "pending"
    /\ served' =
          LET static_files == get_static_files(full_path, static_dir) IN
          IF static_files.kind = "FileResponse" THEN static_files
          ELSE [kind |-> "File not found", path |-> static_dir, status_code |-> 404]
    /\ UNCHANGED <<hvars, ragvars, lvars, pvars, tree, full_path>>

SpecStatic == InitStatic /\ [][serve_spa]_vars

\* C21: for every chunk the header format_context renders has an entry for
\* each of the fields tool, category, subcategory, description, tags and use
\* cases whose value is not empty, and none for a field whose value is empty.
C21_HeaderNamesEveryField ==
    (Ended("get_context_for_template") /\ result.kind = "returned")
        => \A i \in DOMAIN retrieved :
              Len(header_parts(retrieved[i]))
                 = Cardinality({f \in {"tool", "category", "subcategory",
                                         "description", "tags", "use_cases"} :
                                   retrieved[i].metadata[f] # <<>>})

\* C26: the rewrite rules run in a fixed order: the fences are removed before
\* the first parse, the trailing commas before the structural repair; so a
\* reply that combines a json fence, the explanation key inside the commands
\* array and trailing commas before the closing bracket and brace is repaired
\* in one call, for every command of plain text.
C26_CombinedRepair ==
    LET plain == \A i \in DOMAIN fill : fill[i] \in {"x", " "}
        fixed == <<"{",DQ,"c","o","m","m","a","n","d","s",DQ,":"," ","[",DQ>> \o fill
                 \o <<DQ,"]",","," ",DQ,"e","x","p","l","a","n","a","t","i","o","n",DQ,
                      ":"," ",DQ,"y",DQ,","," ",DQ,"e","x","t","r","a",DQ,":"," ",
                      DQ,"d","a","t","a",DQ,"}">>
    IN  /\ (pc = "rewritten" /\ shape = "combined" /\ plain)
              => /\ cleaned = fixed
                 /\ IsJson(cleaned)
                 /\ cleaned = Strip(SubStructural(SubTrailingComma(StripFences(raw))))
        /\ (pc = "rewritten" /\ shape = "json_fence" /\ plain)
              => cleaned = Inner(fill)

\* the combined reply of the tests, with a command of two characters, has
\* been repaired
C26_Witness ==
    /\ pc = "rewritten" /\ shape = "combined" /\ fill = <<"x", "x">>
    /\ IsJson(cleaned)
    /\ ~IsJson(Strip(SubTrailingComma(SubStructural(StripFences(raw)))))

\* C27: for a commands array of any number n >= 1 of strings that is followed
\* inside its brackets by the explanation pair, the structural repair closes
\* the array after the last string and moves the pair to the enclosing
\* object; the result parses and keeps all n commands.
C27_RepairKeepsAllCommands ==
    LET plain == \A i \in DOMAIN fill : fill[i] \in {"x", " "}
        tail == <<DQ,"]",","," ",DQ,"e","x","p","l","a","n","a","t","i","o","n",DQ,
                  ":"," ",DQ,"y",DQ,"}">>
        head == <<"{",DQ,"c","o","m","m","a","n","d","s",DQ,":"," ","[",DQ>>
    IN  /\ (pc = "rewritten" /\ shape = "structural" /\ plain)
              => cleaned = head \o fill \o tail /\ IsJson(cleaned)
        /\ (pc = "rewritten" /\ shape = "multi" /\ plain)
              => /\ cleaned = head \o <<"x",DQ,","," ",DQ>> \o fill \o tail
                 /\ IsJson(cleaned)

\* C23: within one request the generation function is called at most once,
\* the reply is cleaned and parsed at most once, and once a failure has been
\* raised or an answer given, no step calls, cleans or parses again and the
\* answer is not replaced: the failure is reported once.
C23_OnceNoRetry ==
    [][/\ calls' <= 1
       /\ (cleaned' # cleaned => cleaned = None /\ pc = "generated")
       /\ (parsed' # parsed => parsed = None /\ pc = "cleaned")
       /\ (exc # "none" \/ outcome # NoOutcome =>
              UNCHANGED <<calls, raw, cleaned, parsed, exc, outcome>>)
       /\ (exc' # exc => outcome' # NoOutcome /\ pc' = "done")]_vars

C23_Witness ==
    /\ pc = "done" /\ exc = "LLMError" /\ calls = 1
    /\ cleaned = None /\ parsed = None /\ outcome.kind = "Rejected"

\* C24: a server.py POST handler always returns a response object; its code
\* is OK exactly when the model call succeeded, the cleaned reply parsed as a
\* JSON object and every required field is present and valid; otherwise the
\* code is INTERNAL_SERVER_ERROR, the message names the case and every
\* payload field is empty.
C24_ServerResponse ==
    pc = "done" /\ endpoint \in ServerEndpoints =>
        LET valid ==
                /\ raw # None /\ IsJson(cleaned) /\ IsObject(parsed)
                /\ ModelValidates(endpoint, parsed[2])
            case ==
                IF raw = None THEN "An unexpected error occurred"
                ELSE IF ~IsJson(cleaned) THEN "Invalid JSON response from LLM"
                ELSE IF ~IsObject(parsed) THEN "An unexpected error occurred"
                ELSE IF ~(RequiredFields(endpoint) \subseteq DOMAIN parsed[2])
                     THEN "Missing required keys in LLM response"
                ELSE "An unexpected error occurred"
        IN  /\ outcome.kind \in {"Accepted", "Degraded", "Rejected"}
            /\ outcome.http = HTTP_OK
            /\ outcome.code = "OK" <=> valid
            /\ valid => outcome.payload =
                            [k \in RequiredFields(endpoint) |-> parsed[2][k]]
            /\ ~valid =>
                  /\ outcome.code = "INTERNAL_SERVER_ERROR"
                  /\ outcome.error = case
                  /\ outcome.payload =
                        [k \in RequiredFields(endpoint) |->
                            EmptyOf(ModelFields(endpoint)[k])]

\* C22: no call that can block (the generation call, the similarity search
\* with its embedding call) runs on the dispatch path: while a request waits
\* on such a call, the handler of every other request in flight that has a
\* step to take can take it.
C22_BlockingCallsOffLoop ==
    \A i, j \in 1..MaxRequests :
        i # j /\ req[i] \in {"retrieving", "pooled"} =>
            /\ req[j] = "queued" => ENABLED Dispatch(j)
            /\ req[j] = "ready" => ENABLED Resume(j)

\* C25: get_static_files answers by a fixed priority: nothing for a path
\* that starts with "api/", whatever files exist; otherwise the file
\* static_dir/full_path, else the index.html of the directory
\* static_dir/full_path, else static_dir/index.html; serve_spa answers 404
\* "File not found" exactly when the path starts with "api/" or none of the
\* three exists.
C25_StaticPriority ==
    served.kind # "pending" =>
        LET api == Len(full_path) >= 2 /\ SubSeq(full_path, 1, 2) = <<"api", "/">>
            target == JoinPath(static_dir, full_path)
            inner == [target EXCEPT !.parts = Append(@, <<"index.html">>)]
            fallback == [static_dir EXCEPT !.parts = Append(@, <<"index.html">>)]
            first == Kind(target) = "file"
            second == Kind(target) = "dir" /\ Kind(inner) = "file"
            third == Kind(fallback) # "absent"
        IN  /\ served.kind \in {"FileResponse", "File not found"}
            /\ served.kind = "File not found" <=>
                  api \/ ~(first \/ second \/ third)
            /\ served.kind = "File not found" => served.status_code = 404
            /\ ~api /\ first => served.path = target
            /\ ~api /\ ~first /\ second => served.path = inner
            /\ ~api /\ ~first /\ ~second /\ third => served.path = fallback

C25_Witness ==
    /\ served.kind = "FileResponse" /\ full_path = <<"d">>
    /\ served.path = [abs |-> FALSE, parts |-> <<<<"static">>, <<"d">>, <<"index.html">>>>]
    /\ Kind([abs |-> FALSE, parts |-> <<<<"static">>, <<"index.html">>>>]) = "file"

\* C30: get_static_files returns a FileResponse only for a file inside
\* static_dir, whatever full_path is (".." names and absolute paths
\* included).
C30_ServedInsideStaticDir ==
    served.kind = "FileResponse" =>
        LET inside == Locate(static_dir)
            at == Locate(served.path)
        IN  Len(at) > Len(inside) /\ SubSeq(at, 1, Len(inside)) = inside

\* C28: the retrieval query of a prompt is the base template with its
\* placeholders not substituted: requests that differ only in the task text
\* issue the same similarity-search query.
C28_QueryIgnoresTask ==
    \A a, b \in queries :
        a.by = "prompt_chat" /\ b.by = "prompt_chat" =>
            /\ a.text = b.text
            /\ a.text = BaseTemplate
            /\ \E i \in 1..Len(a.text) - 8 :
                  SubSeq(a.text, i, i + 8) = <<"{","m","e","s","s","a","g","e","}">>

C28_Witness ==
    /\ op = "prompt_chat" /\ rpc = "idle" /\ result.kind = "returned"
    /\ \E a, b \in queries :
          a.by = "prompt_chat" /\ b.by = "prompt_chat" /\ a.task # b.task

\* C29: for every server.py handler that parses the reply as JSON, the keys
\* of the response format its prompt shows are the fields the handler
\* requires, so that a reply that follows the format exactly is accepted and
\* never reported as "Missing required keys".
C29_PromptedKeysAreRequired ==
    pc = "done" /\ endpoint \in ServerEndpoints /\ raw = response_format(endpoint) =>
        LET shown == FormatFrom(EscapeBraces(response_format(endpoint)), 1, <<>>).text
            keys == IF IsJson(shown) /\ IsObject(JsonLoads(shown).val)
                    THEN DOMAIN JsonLoads(shown).val[2] ELSE {}
        IN  /\ keys = RequiredFields(endpoint)
            /\ outcome.error # "Missing required keys in LLM response"
            /\ outcome.code = "OK"

====
